---- MODULE Spec2Model ----
(***************************************************************************)
(* Model of the VC4C optimization core.                                    *)
(*                                                                         *)
(*   src/src/optimization/Optimizer.cpp                                    *)
(*     - the pass catalog ALL_PASSES and the level presets getPasses       *)
(*     - the constructor Optimizer::Optimizer building the phase vectors   *)
(*     - the per-method driver runOptimizationPasses                       *)
(*     - Optimizer::optimize dispatching one task per kernel               *)
(*                                                                         *)
(* A pass is identified by its position in ALL_PASSES: the phase vectors   *)
(* of the code hold pointers into that vector, so two entries are the same *)
(* pass exactly when they are the same catalog element.                    *)
(***************************************************************************)
EXTENDS Integers, Sequences, FiniteSets, TLC

(***************************************************************************)
(* Bounds of the model                                                     *)
(***************************************************************************)
\* largest value of config.additionalOptions.maxOptimizationIterations
MaxIterations == 3
\* largest size of config.additionalEnabledOptimizations
MaxEnabled == 2
\* largest size of config.additionalDisabledOptimizations
MaxDisabled == 1
\* largest number of kernels in the module handed to Optimizer::optimize
MaxKernels == 2
\* largest iteration cap in the runs with several kernels
MaxPoolIterations == 2

(***************************************************************************)
(* Optimizer::ALL_PASSES (parameterName and OptimizationType of each entry)*)
(***************************************************************************)
ALL_PASSES ==
    << [parameterName |-> "loop-work-groups", type |-> "INITIAL"],
       [parameterName |-> "reorder-blocks", type |-> "INITIAL"],
       [parameterName |-> "simplify-conditionals", type |-> "INITIAL"],
       [parameterName |-> "simplify-branches", type |-> "INITIAL"],
       [parameterName |-> "merge-blocks", type |-> "INITIAL"],
       [parameterName |-> "vectorize-loops", type |-> "INITIAL"],
       [parameterName |-> "single-steps", type |-> "REPEAT"],
       [parameterName |-> "combine-rotations", type |-> "REPEAT"],
       [parameterName |-> "eliminate-moves", type |-> "REPEAT"],
       [parameterName |-> "eliminate-common-subexpressions", type |-> "REPEAT"],
       [parameterName |-> "eliminate-bit-operations", type |-> "REPEAT"],
       [parameterName |-> "copy-propagation", type |-> "REPEAT"],
       [parameterName |-> "remove-unused-flags", type |-> "REPEAT"],
       [parameterName |-> "eliminate-dead-code", type |-> "REPEAT"],
       [parameterName |-> "compress-work-group-info", type |-> "FINAL"],
       [parameterName |-> "split-read-write", type |-> "FINAL"],
       [parameterName |-> "combine-loads", type |-> "FINAL"],
       [parameterName |-> "extract-loads-from-loops", type |-> "FINAL"],
       [parameterName |-> "work-group-cache", type |-> "FINAL"],
       [parameterName |-> "schedule-instructions", type |-> "FINAL"],
       [parameterName |-> "reorder", type |-> "FINAL"],
       [parameterName |-> "combine", type |-> "FINAL"] >>

Passes == 1..Len(ALL_PASSES)

PassNames == {ALL_PASSES[p].parameterName : p \in Passes}

\* the null pointer of "const OptimizationPass* lastChangingOptimization"
nullptr == 0

(***************************************************************************)
(* Optimizer::getPasses: the switch with its fall-through cascade          *)
(***************************************************************************)
OptimizationLevels == {"NONE", "BASIC", "MEDIUM", "FULL"}

\* a FULL block that lost its emplace("schedule-instructions")
CaseFullWithoutScheduler ==
    {"vectorize-loops", "extract-loads-from-loops",
     "work-group-cache", "eliminate-common-subexpressions", "simplify-conditionals"}

CaseFull ==
    {"vectorize-loops", "extract-loads-from-loops", "schedule-instructions",
     "work-group-cache", "eliminate-common-subexpressions", "simplify-conditionals"}

CaseMedium ==
    {"merge-blocks", "combine-rotations", "eliminate-moves",
     "eliminate-bit-operations", "copy-propagation", "combine-loads"}

CaseBasic ==
    {"reorder-blocks", "simplify-branches", "eliminate-dead-code", "single-steps",
     "reorder", "combine", "remove-unused-flags", "loop-work-groups"}

CaseNone == {"split-read-write"}

\* a cascade that stops after the MEDIUM block (a lost FALL_THROUGH)
getPassesNoFallThrough(level) ==
    CASE level = "FULL" -> CaseFull \cup CaseMedium \cup CaseBasic \cup CaseNone
      [] level = "MEDIUM" -> CaseMedium
      [] level = "BASIC" -> CaseBasic \cup CaseNone
      [] level = "NONE" -> CaseNone
      [] OTHER -> {}

getPasses(level) ==
    CASE level = "FULL" -> CaseFull \cup CaseMedium \cup CaseBasic \cup CaseNone
      [] level = "MEDIUM" -> CaseMedium \cup CaseBasic \cup CaseNone
      [] level = "BASIC" -> CaseBasic \cup CaseNone
      [] level = "NONE" -> CaseNone
      [] OTHER -> {}

(***************************************************************************)
(* addToPasses and the constructor Optimizer::Optimizer                    *)
(***************************************************************************)
EmptyVectors == [initialPasses |-> << >>, repeatingPasses |-> << >>, finalPasses |-> << >>]

\* a switch whose INITIAL case appends to the final vector
addToPassesWrongVector(pass, vecs) ==
    CASE ALL_PASSES[pass].type = "INITIAL" ->
            [vecs EXCEPT !.finalPasses = Append(@, pass)]
      [] ALL_PASSES[pass].type = "REPEAT" ->
            [vecs EXCEPT !.repeatingPasses = Append(@, pass)]
      [] ALL_PASSES[pass].type = "FINAL" ->
            [vecs EXCEPT !.finalPasses = Append(@, pass)]

addToPasses(pass, vecs) ==
    CASE ALL_PASSES[pass].type = "INITIAL" ->
            [vecs EXCEPT !.initialPasses = Append(@, pass)]
      [] ALL_PASSES[pass].type = "REPEAT" ->
            [vecs EXCEPT !.repeatingPasses = Append(@, pass)]
      [] ALL_PASSES[pass].type = "FINAL" ->
            [vecs EXCEPT !.finalPasses = Append(@, pass)]

\* a loop body that tests the enabled set before the disabled set
ConstructorBodyEnabledFirst(pass, cfg, enabled, vecs) ==
    LET name == ALL_PASSES[pass].parameterName IN
    IF name \in cfg.additionalEnabledOptimizations
    THEN addToPasses(pass, vecs)
    ELSE IF name \in cfg.additionalDisabledOptimizations
    THEN vecs
    ELSE IF name \in enabled
    THEN addToPasses(pass, vecs)
    ELSE vecs

\* a loop body with a plain "if" in place of the "else if"
ConstructorBodyNoElse(pass, cfg, enabled, vecs) ==
    LET name == ALL_PASSES[pass].parameterName
        first == IF name \in cfg.additionalEnabledOptimizations
                 THEN addToPasses(pass, vecs) ELSE vecs
    IN  IF name \in cfg.additionalDisabledOptimizations
        THEN vecs
        ELSE IF name \in enabled THEN addToPasses(pass, first) ELSE first

\* one iteration of "for(const OptimizationPass& pass : ALL_PASSES)"
ConstructorBody(pass, cfg, enabled, vecs) ==
    LET name == ALL_PASSES[pass].parameterName IN
    IF name \in cfg.additionalDisabledOptimizations
    THEN vecs
    ELSE IF name \in cfg.additionalEnabledOptimizations
    THEN addToPasses(pass, vecs)
    ELSE IF name \in enabled
    THEN addToPasses(pass, vecs)
    ELSE vecs

RECURSIVE ConstructorLoop(_, _, _, _)
ConstructorLoop(pass, cfg, enabled, vecs) ==
    IF pass > Len(ALL_PASSES)
    THEN vecs
    ELSE ConstructorLoop(pass + 1, cfg, enabled, ConstructorBody(pass, cfg, enabled, vecs))


\* Optimizer::Optimizer: the local enabledPasses and the three vectors it fills
Constructor(cfg) ==
    ConstructorLoop(1, cfg, getPasses(cfg.optimizationLevel), EmptyVectors)

(***************************************************************************)
(* Pass actions.  Only runSingleSteps is part of this file: it ends in     *)
(* "return true" on every path.  Every other action is an external         *)
(* function returning bool.  Any action may signal a CompilationError.     *)
(***************************************************************************)
\* a runSingleSteps that reports whether a step changed the method
PassOutcomesTracked(pass) == {"true", "false", "throw"}

PassOutcomes(pass) ==
    IF ALL_PASSES[pass].parameterName = "single-steps"
    THEN {"true", "throw"}
    ELSE {"true", "false", "throw"}

\* the value of runPass is dropped in the initial and the final loop
Discarded(outcome) == IF outcome = "throw" THEN "throw" ELSE "dropped"

(***************************************************************************)
(* Conditions of runOptimizationPasses                                     *)
(***************************************************************************)
\* a driver that catches the error of a pass and goes on
PropagatesSwallowed(outcome) == FALSE

\* runPass and its callers hold no try block: an error leaves the driver
Propagates(outcome) == outcome = "throw"

\* a test that holds as soon as any pass has changed the method
IsLastChangingAny(last, pass) == last # nullptr

\* a test that never finds the last changing pass
IsLastChangingNever(last, pass) == FALSE

\* "if(lastChangingOptimization == pass)"
IsLastChanging(last, pass) == last = pass

\* a loop condition that forgets the iteration counter
LoopConditionNoCap(continue, left) == continue

\* a loop condition that stops one iteration early
LoopConditionOneLess(continue, left) == continue /\ left > 1

\* "continueLoop && iterationsLeft > 0"
LoopCondition(continue, left) == continue /\ left > 0

\* the condition of the iteration-limit warning
WarnCondition(left, cfg) ==
    /\ left = 0
    /\ cfg.maxOptimizationIterations > 0
    /\ cfg.optimizationLevel # "NONE"

(***************************************************************************)
(* Optimizer::optimize                                                     *)
(***************************************************************************)
\* a lambda that runs every task on the first kernel
fFirstKernel(kernelFunc) == 1

\* the lambda f: the method its task hands to runOptimizationPasses
f(kernelFunc) == kernelFunc

\* ThreadPool::scheduleAll: one task per item, in order
scheduleAll(items) == [i \in 1..Len(items) |-> f(items[i])]

\* number of worker threads of the pool
NumThreads == 2

(***************************************************************************)
(* State                                                                   *)
(***************************************************************************)
VARIABLES
    config,                   \* the Configuration
    module,                   \* the kernels of the module (Module::getKernels)
    main,                     \* position of the thread that owns the Optimizer
    enabledPasses,            \* the constructor's local enabledPasses
    initialPasses,            \* Optimizer::initialPasses
    repeatingPasses,          \* Optimizer::repeatingPasses
    finalPasses,              \* Optimizer::finalPasses
    tasks,                    \* the scheduled tasks: task -> method it runs on
    pc,                       \* task -> position in runOptimizationPasses
    pos,                      \* task -> position of the range-for in its vector
    lastChangingOptimization, \* task -> local of that name
    continueLoop,             \* task -> local of that name
    iterationsLeft,           \* task -> local of that name
    warned,                   \* task -> whether the iteration-limit warning is logged
    trace,                    \* method -> the pass invocations made on it, in order
    entered,                  \* method -> number of driver runs started on it
    sweeps,                   \* task -> number of outer iterations begun
    earlyExit,                \* task -> whether the "continueLoop = false" branch ran
    instructions,             \* the instructions the helpers emitted, in order
    locals,                   \* Method's locals: name -> type and reference pair
    calls,                    \* the helper calls made so far, with their results
    registers,                \* runtime value held by each parameter of the method
    it,                       \* the InstructionWalker: index of the instruction it is at
    range,                    \* the MemoryAccessRange given to the address lowering
    analysis,                 \* a LocalAnalysis instance and the block it is given
    walk                      \* runSingleSteps: the method, its walker and its steps

vars ==
    << config, module, main, enabledPasses, initialPasses, repeatingPasses,
       finalPasses, tasks, pc, pos, lastChangingOptimization, continueLoop,
       iterationsLeft, warned, trace, entered, sweeps, earlyExit,
       instructions, locals, calls, registers, it, range, analysis, walk >>

optimizerVars == << enabledPasses, initialPasses, repeatingPasses, finalPasses >>

\* the state the helpers of intermediate/Helper.cpp work on
helperVars == << instructions, locals, calls, registers, it, range >>

\* the state of the pass driver
driverVars ==
    << config, module, main, enabledPasses, initialPasses, repeatingPasses,
       finalPasses, tasks, pc, pos, lastChangingOptimization, continueLoop,
       iterationsLeft, warned, trace, entered, sweeps, earlyExit >>

Tasks == DOMAIN tasks

Methods == {module[i] : i \in DOMAIN module}

(***************************************************************************)
(* Configurations                                                          *)
(***************************************************************************)
\* the subsets of S with at most n elements
RECURSIVE SubsetsUpTo(_, _)
SubsetsUpTo(S, n) ==
    IF n = 0
    THEN {{}}
    ELSE LET smaller == SubsetsUpTo(S, n - 1)
         IN  smaller \cup {x \cup {e} : x \in smaller, e \in S}

Configurations(levels, names, caps) ==
    [optimizationLevel : levels,
     additionalEnabledOptimizations : SubsetsUpTo(names, MaxEnabled),
     additionalDisabledOptimizations : SubsetsUpTo(names, MaxDisabled),
     maxOptimizationIterations : caps]

\* names the runs of the driver draw the additional sets from
DriverNames == {"single-steps", "combine-rotations", "remove-unused-flags"}

\* names the runs of the constructor draw the additional sets from: passes of
\* every phase and every level, and one name that is no pass
ConstructorNames ==
    {"loop-work-groups", "merge-blocks", "vectorize-loops",
     "single-steps", "combine-rotations", "eliminate-common-subexpressions",
     "compress-work-group-info", "split-read-write", "combine-loads",
     "schedule-instructions", "combine", "no-such-pass"}

\* names the runs that check progress draw the additional sets from
TerminationNames == {"combine-rotations", "remove-unused-flags"}

\* names the runs on the thread pool draw the additional sets from
PoolNames == {"loop-work-groups", "combine-rotations"}

TypeOK ==
    /\ config.optimizationLevel \in OptimizationLevels
    /\ config.maxOptimizationIterations \in Nat
    /\ main \in {"new", "constructed", "scheduled", "returned"}
    /\ \A t \in Tasks :
          /\ pc[t] \in {"pending", "initial", "loop", "repeat", "afterloop",
                        "final", "done", "error"}
          /\ lastChangingOptimization[t] \in Passes \cup {nullptr}
          /\ iterationsLeft[t] \in 0..config.maxOptimizationIterations

\* the driver before the Optimizer is constructed
InitDriver(cfgs, modules) ==
    /\ config \in cfgs
    /\ module \in modules
    /\ main = "new"
    /\ enabledPasses = {}
    /\ initialPasses = << >>
    /\ repeatingPasses = << >>
    /\ finalPasses = << >>
    /\ tasks = << >>
    /\ pc = << >>
    /\ pos = << >>
    /\ lastChangingOptimization = << >>
    /\ continueLoop = << >>
    /\ iterationsLeft = << >>
    /\ warned = << >>
    /\ trace = [m \in {module[i] : i \in DOMAIN module} |-> << >>]
    /\ entered = [m \in {module[i] : i \in DOMAIN module} |-> 0]
    /\ sweeps = << >>
    /\ earlyExit = << >>

\* no range, no analysis and no walk of the single steps
NoRange == << >>

NoAnalysis == << >>

NoWalk == << >>

InitWith(cfgs, modules) ==
    /\ InitDriver(cfgs, modules)
    /\ instructions = << >>
    /\ locals = << >>
    /\ calls = << >>
    /\ registers = << >>
    /\ it = 1
    /\ range = NoRange
    /\ analysis = NoAnalysis
    /\ walk = NoWalk

\* a module with one kernel
SingleKernel == << 1 >>

\* one kernel, driven through every phase
Init ==
    InitWith(Configurations({"NONE", "BASIC"}, DriverNames, 0..MaxIterations),
             {SingleKernel})

\* one kernel, for the runs that check progress
InitTermination ==
    InitWith(Configurations({"NONE", "BASIC"}, TerminationNames, 0..MaxIterations),
             {SingleKernel})

\* the constructor over every level and the whole catalog
InitConstructor ==
    InitWith(Configurations(OptimizationLevels, ConstructorNames, {MaxIterations}),
             {SingleKernel})

\* several kernels on the thread pool
InitPool ==
    InitWith(Configurations({"NONE"}, PoolNames, 0..MaxPoolIterations),
             {[i \in 1..n |-> i] : n \in 0..MaxKernels})

(***************************************************************************)
(* Optimizer::Optimizer                                                    *)
(***************************************************************************)
Construct ==
    /\ main = "new"
    /\ LET vecs == Constructor(config)
       IN  /\ enabledPasses' = getPasses(config.optimizationLevel)
           /\ initialPasses' = vecs.initialPasses
           /\ repeatingPasses' = vecs.repeatingPasses
           /\ finalPasses' = vecs.finalPasses
    /\ main' = "constructed"
    /\ UNCHANGED << config, module, tasks, pc, pos, lastChangingOptimization,
                    continueLoop, iterationsLeft, warned, trace, entered, sweeps,
                    earlyExit >>
    /\ UNCHANGED << helperVars, analysis, walk >>

(***************************************************************************)
(* Optimizer::optimize: getKernels and scheduleAll, then the barrier       *)
(***************************************************************************)
Optimize ==
    /\ main = "constructed"
    /\ LET kernels == module
           scheduled == scheduleAll(kernels)
       IN  /\ tasks' = scheduled
           /\ pc' = [t \in DOMAIN scheduled |-> "pending"]
           /\ pos' = [t \in DOMAIN scheduled |-> 0]
           /\ lastChangingOptimization' = [t \in DOMAIN scheduled |-> nullptr]
           /\ continueLoop' = [t \in DOMAIN scheduled |-> FALSE]
           /\ iterationsLeft' = [t \in DOMAIN scheduled |-> 0]
           /\ warned' = [t \in DOMAIN scheduled |-> FALSE]
           /\ sweeps' = [t \in DOMAIN scheduled |-> 0]
           /\ earlyExit' = [t \in DOMAIN scheduled |-> FALSE]
    /\ main' = "scheduled"
    /\ UNCHANGED << config, module, trace, entered >>
    /\ UNCHANGED optimizerVars
    /\ UNCHANGED << helperVars, analysis, walk >>

\* scheduleAll returns once every task has ended
OptimizeReturn ==
    /\ main = "scheduled"
    /\ \A t \in Tasks : pc[t] \in {"done", "error"}
    /\ main' = "returned"
    /\ UNCHANGED << config, module, tasks, pc, pos, lastChangingOptimization,
                    continueLoop, iterationsLeft, warned, trace, entered, sweeps,
                    earlyExit >>
    /\ UNCHANGED optimizerVars
    /\ UNCHANGED << helperVars, analysis, walk >>

(***************************************************************************)
(* runOptimizationPasses, one task t on the method tasks[t]                *)
(***************************************************************************)
Running(t) == pc[t] \in {"initial", "loop", "repeat", "afterloop", "final"}

\* the record of one call of runPass
Invocation(t, pass, result, during) ==
    [pass |-> pass, result |-> result, during |-> during, task |-> t,
     sweep |-> sweeps[t]]

\* a worker thread takes the task and enters the driver
StartTask(t) ==
    /\ main = "scheduled"
    /\ pc[t] = "pending"
    /\ Cardinality({u \in Tasks : Running(u)}) < NumThreads
    /\ pc' = [pc EXCEPT ![t] = "initial"]
    /\ pos' = [pos EXCEPT ![t] = 1]
    /\ entered' = [entered EXCEPT ![tasks[t]] = @ + 1]
    /\ UNCHANGED << config, module, main, tasks, lastChangingOptimization,
                    continueLoop, iterationsLeft, warned, trace, sweeps, earlyExit >>
    /\ UNCHANGED optimizerVars
    /\ UNCHANGED << helperVars, analysis, walk >>

\* "for(const OptimizationPass* pass : initialPasses) runPass(...)"
RunInitialPass(t) ==
    /\ pc[t] = "initial"
    /\ pos[t] <= Len(initialPasses)
    /\ LET pass == initialPasses[pos[t]] IN
       \E outcome \in PassOutcomes(pass) :
          /\ trace' = [trace EXCEPT ![tasks[t]] =
                          Append(@, Invocation(t, pass, Discarded(outcome), "initial"))]
          /\ IF Propagates(outcome)
             THEN pc' = [pc EXCEPT ![t] = "error"] /\ pos' = pos
             ELSE pc' = pc /\ pos' = [pos EXCEPT ![t] = @ + 1]
    /\ UNCHANGED << config, module, main, tasks, lastChangingOptimization,
                    continueLoop, iterationsLeft, warned, entered, sweeps, earlyExit >>
    /\ UNCHANGED optimizerVars
    /\ UNCHANGED << helperVars, analysis, walk >>

\* the locals set up before the fixed-point loop
EnterLoop(t) ==
    /\ pc[t] = "initial"
    /\ pos[t] > Len(initialPasses)
    /\ lastChangingOptimization' = [lastChangingOptimization EXCEPT ![t] = nullptr]
    /\ continueLoop' = [continueLoop EXCEPT ![t] = (repeatingPasses # << >>)]
    /\ iterationsLeft' = [iterationsLeft EXCEPT ![t] = config.maxOptimizationIterations]
    /\ pc' = [pc EXCEPT ![t] = "loop"]
    /\ UNCHANGED << config, module, main, tasks, pos, warned, trace, entered,
                    sweeps, earlyExit >>
    /\ UNCHANGED optimizerVars
    /\ UNCHANGED << helperVars, analysis, walk >>

\* the loop condition holds: the next outer iteration begins
BeginIteration(t) ==
    /\ pc[t] = "loop"
    /\ LoopCondition(continueLoop[t], iterationsLeft[t])
    /\ pc' = [pc EXCEPT ![t] = "repeat"]
    /\ pos' = [pos EXCEPT ![t] = 1]
    /\ sweeps' = [sweeps EXCEPT ![t] = @ + 1]
    /\ UNCHANGED << config, module, main, tasks, lastChangingOptimization,
                    continueLoop, iterationsLeft, warned, trace, entered, earlyExit >>
    /\ UNCHANGED optimizerVars
    /\ UNCHANGED << helperVars, analysis, walk >>

\* the loop condition fails: the loop is left
LeaveLoop(t) ==
    /\ pc[t] = "loop"
    /\ ~LoopCondition(continueLoop[t], iterationsLeft[t])
    /\ pc' = [pc EXCEPT ![t] = "afterloop"]
    /\ UNCHANGED << config, module, main, tasks, pos, lastChangingOptimization,
                    continueLoop, iterationsLeft, warned, trace, entered, sweeps,
                    earlyExit >>
    /\ UNCHANGED optimizerVars
    /\ UNCHANGED << helperVars, analysis, walk >>

\* "continueLoop = false; break;" and the --iterationsLeft of the outer loop
EarlyExit(t) ==
    /\ pc[t] = "repeat"
    /\ pos[t] <= Len(repeatingPasses)
    /\ IsLastChanging(lastChangingOptimization[t], repeatingPasses[pos[t]])
    /\ continueLoop' = [continueLoop EXCEPT ![t] = FALSE]
    /\ iterationsLeft' = [iterationsLeft EXCEPT ![t] = @ - 1]
    /\ earlyExit' = [earlyExit EXCEPT ![t] = TRUE]
    /\ pc' = [pc EXCEPT ![t] = "loop"]
    /\ UNCHANGED << config, module, main, tasks, pos, lastChangingOptimization,
                    warned, trace, entered, sweeps >>
    /\ UNCHANGED optimizerVars
    /\ UNCHANGED << helperVars, analysis, walk >>

\* "if(runPass(...)) lastChangingOptimization = pass;"
RunRepeatPass(t) ==
    /\ pc[t] = "repeat"
    /\ pos[t] <= Len(repeatingPasses)
    /\ ~IsLastChanging(lastChangingOptimization[t], repeatingPasses[pos[t]])
    /\ LET pass == repeatingPasses[pos[t]] IN
       \E outcome \in PassOutcomes(pass) :
          /\ trace' = [trace EXCEPT ![tasks[t]] =
                          Append(@, Invocation(t, pass, outcome, "repeat"))]
          /\ IF Propagates(outcome)
             THEN /\ pc' = [pc EXCEPT ![t] = "error"]
                  /\ UNCHANGED << pos, lastChangingOptimization >>
             ELSE /\ pc' = pc
                  /\ pos' = [pos EXCEPT ![t] = @ + 1]
                  /\ lastChangingOptimization' =
                        IF outcome = "true"
                        THEN [lastChangingOptimization EXCEPT ![t] = pass]
                        ELSE lastChangingOptimization
    /\ UNCHANGED << config, module, main, tasks, continueLoop, iterationsLeft,
                    warned, entered, sweeps, earlyExit >>
    /\ UNCHANGED optimizerVars
    /\ UNCHANGED << helperVars, analysis, walk >>

\* the inner loop ran to its end: --iterationsLeft
EndIteration(t) ==
    /\ pc[t] = "repeat"
    /\ pos[t] > Len(repeatingPasses)
    /\ iterationsLeft' = [iterationsLeft EXCEPT ![t] = @ - 1]
    /\ pc' = [pc EXCEPT ![t] = "loop"]
    /\ UNCHANGED << config, module, main, tasks, pos, lastChangingOptimization,
                    continueLoop, warned, trace, entered, sweeps, earlyExit >>
    /\ UNCHANGED optimizerVars
    /\ UNCHANGED << helperVars, analysis, walk >>

\* an iteration limit that returns from the driver in place of the warning
WarnEndsRun(t) ==
    /\ pc[t] = "afterloop"
    /\ warned' = [warned EXCEPT ![t] = WarnCondition(iterationsLeft[t], config)]
    /\ pc' = [pc EXCEPT ![t] = IF iterationsLeft[t] = 0 /\ sweeps[t] > 0
                               THEN "done" ELSE "final"]
    /\ pos' = [pos EXCEPT ![t] = 1]
    /\ UNCHANGED << config, module, main, tasks, lastChangingOptimization,
                    continueLoop, iterationsLeft, trace, entered, sweeps, earlyExit >>
    /\ UNCHANGED optimizerVars
    /\ UNCHANGED << helperVars, analysis, walk >>

\* the iteration-limit warning
Warn(t) ==
    /\ pc[t] = "afterloop"
    /\ warned' = [warned EXCEPT ![t] = WarnCondition(iterationsLeft[t], config)]
    /\ pc' = [pc EXCEPT ![t] = "final"]
    /\ pos' = [pos EXCEPT ![t] = 1]
    /\ UNCHANGED << config, module, main, tasks, lastChangingOptimization,
                    continueLoop, iterationsLeft, trace, entered, sweeps, earlyExit >>
    /\ UNCHANGED optimizerVars
    /\ UNCHANGED << helperVars, analysis, walk >>

\* "for(const OptimizationPass* pass : finalPasses) runPass(...)"
RunFinalPass(t) ==
    /\ pc[t] = "final"
    /\ pos[t] <= Len(finalPasses)
    /\ LET pass == finalPasses[pos[t]] IN
       \E outcome \in PassOutcomes(pass) :
          /\ trace' = [trace EXCEPT ![tasks[t]] =
                          Append(@, Invocation(t, pass, Discarded(outcome), "final"))]
          /\ IF Propagates(outcome)
             THEN pc' = [pc EXCEPT ![t] = "error"] /\ pos' = pos
             ELSE pc' = pc /\ pos' = [pos EXCEPT ![t] = @ + 1]
    /\ UNCHANGED << config, module, main, tasks, lastChangingOptimization,
                    continueLoop, iterationsLeft, warned, entered, sweeps, earlyExit >>
    /\ UNCHANGED optimizerVars
    /\ UNCHANGED << helperVars, analysis, walk >>

\* the driver returns
Finish(t) ==
    /\ pc[t] = "final"
    /\ pos[t] > Len(finalPasses)
    /\ pc' = [pc EXCEPT ![t] = "done"]
    /\ UNCHANGED << config, module, main, tasks, pos, lastChangingOptimization,
                    continueLoop, iterationsLeft, warned, trace, entered, sweeps,
                    earlyExit >>
    /\ UNCHANGED optimizerVars
    /\ UNCHANGED << helperVars, analysis, walk >>

TaskStep(t) ==
    \/ StartTask(t)
    \/ RunInitialPass(t)
    \/ EnterLoop(t)
    \/ BeginIteration(t)
    \/ LeaveLoop(t)
    \/ EarlyExit(t)
    \/ RunRepeatPass(t)
    \/ EndIteration(t)
    \/ Warn(t)
    \/ RunFinalPass(t)
    \/ Finish(t)

Next ==
    \/ Construct
    \/ Optimize
    \/ OptimizeReturn
    \/ \E t \in Tasks : StartTask(t)
    \/ \E t \in Tasks : RunInitialPass(t)
    \/ \E t \in Tasks : EnterLoop(t)
    \/ \E t \in Tasks : BeginIteration(t)
    \/ \E t \in Tasks : LeaveLoop(t)
    \/ \E t \in Tasks : EarlyExit(t)
    \/ \E t \in Tasks : RunRepeatPass(t)
    \/ \E t \in Tasks : EndIteration(t)
    \/ \E t \in Tasks : Warn(t)
    \/ \E t \in Tasks : RunFinalPass(t)
    \/ \E t \in Tasks : Finish(t)

Spec == Init /\ [][Next]_vars

\* a thread that runs the driver is not stopped for ever
FairSpec ==
    InitTermination /\ [][Next]_vars /\ WF_vars(\E t \in Tasks : TaskStep(t))

SpecPool == InitPool /\ [][Next]_vars

NextConstructor == Construct

SpecConstructor == InitConstructor /\ [][NextConstructor]_vars

(***************************************************************************)
(* Reading the record of invocations                                       *)
(***************************************************************************)
cap == config.maxOptimizationIterations

\* positions in the record of method m at which pass p was invoked
InvocationsOf(m, p) == {i \in DOMAIN trace[m] : trace[m][i].pass = p}

Count(m, p) == Cardinality(InvocationsOf(m, p))

\* pass p was invoked on m and returned true every time
AlwaysTrue(m, p) ==
    /\ InvocationsOf(m, p) # {}
    /\ \A i \in InvocationsOf(m, p) : trace[m][i].result = "true"

\* pass p never returned true on m
NeverTrue(m, p) == \A i \in InvocationsOf(m, p) : trace[m][i].result = "false"

\* pass p returned true on its first invocation on m and false on every later one
TrueOnlyFirst(m, p) ==
    /\ InvocationsOf(m, p) # {}
    /\ \A i \in InvocationsOf(m, p) :
          trace[m][i].result =
             IF \A j \in InvocationsOf(m, p) : i <= j THEN "true" ELSE "false"

\* the passes invoked on m by the loop "during", in order
InvokedDuring(m, during) ==
    LET Test(e) == e.during = during
        Pass(s) == [i \in DOMAIN s |-> s[i].pass]
    IN  Pass(SelectSeq(trace[m], Test))

\* the passes invoked on m in the k-th outer iteration of the repeat loop
InvokedInSweep(m, k) ==
    LET Test(e) == e.during = "repeat" /\ e.sweep = k
        Pass(s) == [i \in DOMAIN s |-> s[i].pass]
    IN  Pass(SelectSeq(trace[m], Test))

\* s is an initial part of vector
IsPrefix(s, vector) ==
    /\ Len(s) <= Len(vector)
    /\ \A i \in DOMAIN s : s[i] = vector[i]

RepeatSet == {repeatingPasses[i] : i \in DOMAIN repeatingPasses}

PhaseRank(type) ==
    CASE type = "INITIAL" -> 1
      [] type = "REPEAT" -> 2
      [] type = "FINAL" -> 3

\* the loop of task t is over and the warning has been decided
LoopOver(t) == pc[t] \in {"final", "done"}

(***************************************************************************)
(* C1: on every method, every invocation of an initial-phase pass comes    *)
(* before every invocation of a repeat-phase pass, and every invocation of *)
(* a repeat-phase pass before every invocation of a final-phase pass: the  *)
(* phase of the invoked pass never steps back from one invocation to the   *)
(* next.                                                                   *)
(***************************************************************************)
C1_PhaseOrdering ==
    \A m \in DOMAIN trace :
       \A i \in DOMAIN trace[m] :
          i < Len(trace[m]) =>
             PhaseRank(ALL_PASSES[trace[m][i].pass].type)
                <= PhaseRank(ALL_PASSES[trace[m][i + 1].pass].type)

\* a finished run that invoked passes of all three phases
C1_Witness ==
    \E t \in Tasks :
       /\ pc[t] = "done"
       /\ {ALL_PASSES[trace[tasks[t]][i].pass].type : i \in DOMAIN trace[tasks[t]]}
             = {"INITIAL", "REPEAT", "FINAL"}
       /\ sweeps[t] >= 2

(***************************************************************************)
(* C2: the repeat vector is [A, B], A returns true on its first invocation *)
(* only, B never returns true, and the cap allows two iterations.          *)
(***************************************************************************)
C2_Scenario(t) ==
    /\ Len(repeatingPasses) = 2
    /\ cap >= 2
    /\ LoopOver(t)
    /\ "false" \in PassOutcomes(repeatingPasses[1])
    /\ TrueOnlyFirst(tasks[t], repeatingPasses[1])
    /\ InvocationsOf(tasks[t], repeatingPasses[2]) # {}
    /\ NeverTrue(tasks[t], repeatingPasses[2])

\* C2 as stated: in that scenario the second iteration invokes A again, so
\* that A is invoked twice in total and B once.
C2_AInvokedTwice ==
    \A t \in Tasks :
       C2_Scenario(t) =>
          /\ Count(tasks[t], repeatingPasses[1]) = 2
          /\ Count(tasks[t], repeatingPasses[2]) = 1

\* C2 as amended: in that scenario the loop ends in its second outer
\* iteration by the early exit, which is tested before A is invoked again:
\* A and B are each invoked exactly once.
C2_AInvokedOnce ==
    \A t \in Tasks :
       C2_Scenario(t) =>
          /\ Count(tasks[t], repeatingPasses[1]) = 1
          /\ Count(tasks[t], repeatingPasses[2]) = 1
          /\ sweeps[t] = 2
          /\ earlyExit[t]
          /\ InvokedDuring(tasks[t], "repeat") = repeatingPasses

\* a finished run of the scenario
C2_Witness == \E t \in Tasks : C2_Scenario(t) /\ pc[t] = "done"

(***************************************************************************)
(* C3: the cap is 3, the level is not none, and a repeat pass P returns    *)
(* true on every invocation.                                               *)
(***************************************************************************)
C3_Scenario(t) ==
    /\ cap = 3
    /\ config.optimizationLevel # "NONE"
    /\ pc[t] = "done"

FinalPhaseComplete(t) == InvokedDuring(tasks[t], "final") = finalPasses

\* C3 as stated: every such P is invoked exactly 3 times, the warning is
\* logged and the final passes run.
C3_ThreeInvocations ==
    \A t \in Tasks :
       C3_Scenario(t) =>
          \A P \in RepeatSet :
             AlwaysTrue(tasks[t], P) =>
                /\ Count(tasks[t], P) = 3
                /\ warned[t]
                /\ FinalPhaseComplete(t)

\* C3 as amended: when at least two repeat passes return true on every
\* invocation, each of them is invoked exactly 3 times, the warning is logged
\* and the final passes run; when P is the only repeat pass that ever returns
\* true (the list [P] alone included), P is invoked exactly once, no warning
\* is logged and the final passes run.
C3_ThreeInvocationsAmended ==
    \A t \in Tasks :
       C3_Scenario(t) =>
          \A P \in RepeatSet :
             AlwaysTrue(tasks[t], P) =>
                /\ (\E Q \in RepeatSet \ {P} : AlwaysTrue(tasks[t], Q)) =>
                      /\ Count(tasks[t], P) = 3
                      /\ warned[t]
                      /\ FinalPhaseComplete(t)
                /\ (\A Q \in RepeatSet \ {P} : NeverTrue(tasks[t], Q)) =>
                      /\ Count(tasks[t], P) = 1
                      /\ ~warned[t]
                      /\ FinalPhaseComplete(t)

\* a finished run in which two passes returned true three times each
C3_Witness ==
    \E t \in Tasks :
       /\ C3_Scenario(t)
       /\ \E P, Q \in RepeatSet :
             /\ P # Q
             /\ AlwaysTrue(tasks[t], P)
             /\ AlwaysTrue(tasks[t], Q)
             /\ Count(tasks[t], P) = 3
       /\ warned[t]

\* a finished run in which only one pass ever returned true
C3_WitnessSingle ==
    \E t \in Tasks :
       /\ C3_Scenario(t)
       /\ \E P \in RepeatSet :
             /\ AlwaysTrue(tasks[t], P)
             /\ \A Q \in RepeatSet \ {P} : NeverTrue(tasks[t], Q)
             /\ Count(tasks[t], P) = 1

(***************************************************************************)
(* C4: for every repeat vector and every sequence of pass results the      *)
(* repeat loop ends after at most maxOptimizationIterations + 1 outer      *)
(* iterations, and the driver then goes on to the final phase (a pass that *)
(* signals an error ends the driver instead).                              *)
(***************************************************************************)
C4_LoopTerminates ==
    /\ [](\A t \in Tasks : sweeps[t] <= cap + 1)
    /\ \A t \in DOMAIN SingleKernel :
          (t \in Tasks /\ pc[t] \in {"loop", "repeat"})
             ~> (t \in Tasks /\ pc[t] \in {"final", "error"})

\* a run whose loop used every iteration the cap allows and reached the
\* final phase
C4_Witness ==
    \E t \in Tasks :
       /\ pc[t] = "final"
       /\ cap = MaxIterations
       /\ sweeps[t] = cap
       /\ ~earlyExit[t]

(***************************************************************************)
(* C5: the iteration-limit warning is logged if and only if the loop was   *)
(* stopped by the iteration counter reaching the cap and not by the early  *)
(* exit, the cap is not zero and the level is not none; a run whose loop   *)
(* ends by the early exit logs no warning.                                 *)
(***************************************************************************)
C5_WarningIffCapHit ==
    \A t \in Tasks :
       LoopOver(t) =>
          /\ warned[t] <=>
                /\ ~earlyExit[t]
                /\ sweeps[t] = cap
                /\ cap # 0
                /\ config.optimizationLevel # "NONE"
          /\ earlyExit[t] => ~warned[t]

(***************************************************************************)
(* Reading the phase vectors                                               *)
(***************************************************************************)
Elements(vector) == {vector[i] : i \in DOMAIN vector}

Scheduled == Elements(initialPasses) \cup Elements(repeatingPasses) \cup Elements(finalPasses)

\* the catalog passes a set of parameter names names
Named(names) == {p \in Passes : ALL_PASSES[p].parameterName \in names}

\* the order none <= basic <= medium <= full of the levels
LevelRank(level) ==
    CASE level = "NONE" -> 0
      [] level = "BASIC" -> 1
      [] level = "MEDIUM" -> 2
      [] level = "FULL" -> 3

\* number of positions of the three vectors that hold pass p
Occurrences(p) ==
    Cardinality({i \in DOMAIN initialPasses : initialPasses[i] = p})
    + Cardinality({i \in DOMAIN repeatingPasses : repeatingPasses[i] = p})
    + Cardinality({i \in DOMAIN finalPasses : finalPasses[i] = p})

\* the vector lists passes in the relative order of the catalog
InCatalogOrder(vector) == \A i, j \in DOMAIN vector : i < j => vector[i] < vector[j]

(***************************************************************************)
(* C6: the passes the constructor places into the three vectors are the    *)
(* passes named by the level preset or by additionalEnabledOptimizations,  *)
(* minus the passes named by additionalDisabledOptimizations.              *)
(***************************************************************************)
C6_ScheduledSet ==
    main # "new" =>
       Scheduled =
          (Named(getPasses(config.optimizationLevel))
              \cup Named(config.additionalEnabledOptimizations))
          \ Named(config.additionalDisabledOptimizations)

\* a constructed Optimizer whose configuration disables a pass that both the
\* level and the enabled set name, and enables a pass the level does not name
C6_Witness ==
    /\ main = "constructed"
    /\ \E p \in Passes :
          /\ ALL_PASSES[p].parameterName \in config.additionalDisabledOptimizations
          /\ ALL_PASSES[p].parameterName \in config.additionalEnabledOptimizations
          /\ ALL_PASSES[p].parameterName \in getPasses(config.optimizationLevel)
          /\ p \notin Scheduled
    /\ \E p \in Scheduled :
          ALL_PASSES[p].parameterName \notin getPasses(config.optimizationLevel)

(***************************************************************************)
(* C7: the level presets cascade: the preset of every level up to the      *)
(* configured one is contained in the preset the constructor obtained, and *)
(* the preset of level none contains split-read-write.                     *)
(***************************************************************************)
C7_LevelMonotonic ==
    main # "new" =>
       /\ \A L1 \in OptimizationLevels :
             LevelRank(L1) <= LevelRank(config.optimizationLevel)
                => getPasses(L1) \subseteq enabledPasses
       /\ "split-read-write" \in enabledPasses

\* a constructed Optimizer of level medium, whose preset strictly contains
\* the presets of basic and none
C7_Witness ==
    /\ main = "constructed"
    /\ config.optimizationLevel = "MEDIUM"
    /\ getPasses("BASIC") \subseteq enabledPasses
    /\ getPasses("BASIC") # enabledPasses
    /\ getPasses("NONE") # getPasses("BASIC")

(***************************************************************************)
(* C8: after construction each catalog pass occurs at most once across the *)
(* three vectors, only in the vector of its own phase, and each vector is  *)
(* in catalog order; the passes of a phase are invoked in that order in    *)
(* every sweep: what a sweep has invoked is an initial part of its vector. *)
(***************************************************************************)
C8_VectorsWellFormed ==
    /\ \A p \in Passes : Occurrences(p) <= 1
    /\ \A p \in Elements(initialPasses) : ALL_PASSES[p].type = "INITIAL"
    /\ \A p \in Elements(repeatingPasses) : ALL_PASSES[p].type = "REPEAT"
    /\ \A p \in Elements(finalPasses) : ALL_PASSES[p].type = "FINAL"
    /\ InCatalogOrder(initialPasses)
    /\ InCatalogOrder(repeatingPasses)
    /\ InCatalogOrder(finalPasses)
    /\ \A t \in Tasks :
          /\ IsPrefix(InvokedDuring(tasks[t], "initial"), initialPasses)
          /\ IsPrefix(InvokedDuring(tasks[t], "final"), finalPasses)
          /\ \A k \in 1..sweeps[t] :
                IsPrefix(InvokedInSweep(tasks[t], k), repeatingPasses)

\* a finished run, with two full sweeps, of an Optimizer whose configuration
\* names a pass both by the level and by the enabled set
C8_Witness ==
    \E t \in Tasks :
       /\ pc[t] = "done"
       /\ sweeps[t] >= 2
       /\ Len(repeatingPasses) >= 2
       /\ Len(InvokedDuring(tasks[t], "repeat")) >= 2 * Len(repeatingPasses)
       /\ \E p \in Scheduled :
             /\ ALL_PASSES[p].parameterName \in config.additionalEnabledOptimizations
             /\ ALL_PASSES[p].parameterName \in getPasses(config.optimizationLevel)

(***************************************************************************)
(* C9: optimize creates exactly one task per kernel; under every           *)
(* interleaving each kernel has its pass sequence run exactly once, by one *)
(* task only, the phase vectors stay as constructed, and optimize returns  *)
(* only after every task has ended.                                        *)
(***************************************************************************)
\* the driver ran through on task t: every initial and every final pass
\* once, and the repeat passes in whole sweeps up to the early exit
CompleteSequence(t) ==
    /\ InvokedDuring(tasks[t], "initial") = initialPasses
    /\ InvokedDuring(tasks[t], "final") = finalPasses
    /\ (repeatingPasses # << >> /\ cap > 0)
          => \A p \in RepeatSet : Count(tasks[t], p) >= 1
    /\ \A p \in Passes : Count(tasks[t], p) <= IF p \in RepeatSet THEN cap ELSE 1

C9_OneTaskPerKernel ==
    /\ main \in {"scheduled", "returned"} =>
          /\ Len(tasks) = Len(module)
          /\ \A m \in Methods : Cardinality({t \in Tasks : tasks[t] = m}) = 1
    /\ \A m \in Methods :
          /\ entered[m] <= 1
          /\ \A i \in DOMAIN trace[m] :
                /\ trace[m][i].task \in Tasks
                /\ tasks[trace[m][i].task] = m
                /\ trace[m][i].task = trace[m][1].task
    /\ main # "new" =>
          /\ initialPasses = Constructor(config).initialPasses
          /\ repeatingPasses = Constructor(config).repeatingPasses
          /\ finalPasses = Constructor(config).finalPasses
    /\ main = "returned" =>
          /\ \A m \in Methods : entered[m] = 1
          /\ \A t \in Tasks :
                /\ pc[t] \in {"done", "error"}
                /\ pc[t] = "done" => CompleteSequence(t)

\* optimize has returned from two kernels whose drivers both ran through
C9_Witness ==
    /\ main = "returned"
    /\ Len(module) >= 2
    /\ \A t \in Tasks :
          /\ pc[t] = "done"
          /\ Len(trace[tasks[t]]) >= 3

(***************************************************************************)
(* C10: when a pass signals an error the error leaves the driver of that   *)
(* method: the failed invocation is the last one made on the method, no    *)
(* pass of the current or a later phase follows, and there is no retry.    *)
(***************************************************************************)
C10_ErrorAborts ==
    \A t \in Tasks :
       LET m == tasks[t] IN
       /\ \A i \in DOMAIN trace[m] :
             trace[m][i].result = "throw" => (i = Len(trace[m]) /\ pc[t] = "error")
       /\ pc[t] = "error" =>
             (trace[m] # << >> /\ trace[m][Len(trace[m])].result = "throw")

\* optimize has returned after a repeat pass failed with passes of its own
\* phase and of the final phase still to run
C10_Witness ==
    /\ main = "returned"
    /\ \E t \in Tasks :
          /\ pc[t] = "error"
          /\ trace[tasks[t]][Len(trace[tasks[t]])].during = "repeat"
          /\ pos[t] < Len(repeatingPasses)
          /\ finalPasses # << >>

(***************************************************************************)
(* intermediate/Helper.cpp                                                 *)
(*                                                                         *)
(* 32-bit words.  A word is the function from bit position (0 = the least  *)
(* significant) to the bit, so that every operation keeps the width of the *)
(* register it models.                                                     *)
(***************************************************************************)
WordBits == 32

BitIndex == 0..(WordBits - 1)

RECURSIVE Pow2(_)
Pow2(n) == IF n = 0 THEN 1 ELSE 2 * Pow2(n - 1)

\* the word with the bytes A B C D, most significant first
Word(A, B, C, D) ==
    [i \in BitIndex |-> (<< D, C, B, A >>[(i \div 8) + 1] \div Pow2(i % 8)) % 2]

\* byte k of a word as a number, byte 0 the least significant
ByteOf(w, k) ==
    w[8 * k] + 2 * w[8 * k + 1] + 4 * w[8 * k + 2] + 8 * w[8 * k + 3]
    + 16 * w[8 * k + 4] + 32 * w[8 * k + 5] + 64 * w[8 * k + 6]
    + 128 * w[8 * k + 7]

\* Literal(0u)
LiteralZero == [i \in BitIndex |-> 0]

\* Literal(-1)
LiteralMinusOne == [i \in BitIndex |-> 1]

\* the most negative value of int32_t
INT_MIN == [i \in BitIndex |-> IF i = WordBits - 1 THEN 1 ELSE 0]

\* Literal::signedInt() < 0
IsNegative(w) == w[WordBits - 1] = 1

\* the operations of the ALU
OP_XOR(a, b) == [i \in BitIndex |-> (a[i] + b[i]) % 2]

OP_AND(a, b) == [i \in BitIndex |-> a[i] * b[i]]

OP_OR(a, b) == [i \in BitIndex |-> IF a[i] + b[i] > 0 THEN 1 ELSE 0]

OP_NOT(a) == [i \in BitIndex |-> 1 - a[i]]

\* the shift and rotation offset is taken from the low five bits
ShiftOffset(b) == b[0] + 2 * b[1] + 4 * b[2] + 8 * b[3] + 16 * b[4]

OP_ROR(a, b) == [i \in BitIndex |-> a[(i + ShiftOffset(b)) % WordBits]]

OP_SHL(a, b) ==
    [i \in BitIndex |-> IF i >= ShiftOffset(b) THEN a[i - ShiftOffset(b)] ELSE 0]

OP_SHR(a, b) ==
    [i \in BitIndex |->
        IF i + ShiftOffset(b) < WordBits THEN a[i + ShiftOffset(b)] ELSE 0]

OP_ASR(a, b) ==
    [i \in BitIndex |->
        IF i + ShiftOffset(b) < WordBits THEN a[i + ShiftOffset(b)]
        ELSE a[WordBits - 1]]

\* the carries of a + b + cin: element i + 1 is the carry into bit i
RECURSIVE Carry(_, _, _)
Carry(a, b, c) ==
    IF Len(c) = WordBits THEN c
    ELSE Carry(a, b, Append(c, (a[Len(c) - 1] + b[Len(c) - 1] + c[Len(c)]) \div 2))

AddWithCarry(a, b, cin) ==
    LET c == Carry(a, b, << cin >>)
    IN  [i \in BitIndex |-> (a[i] + b[i] + c[i + 1]) % 2]

\* addition and subtraction modulo 2^32
OP_ADD(a, b) == AddWithCarry(a, b, 0)

OP_SUB(a, b) == AddWithCarry(a, OP_NOT(b), 1)

\* the literal of a small number
FromNat(n) ==
    [i \in BitIndex |-> IF i = WordBits - 1 THEN 0 ELSE (n \div Pow2(i)) % 2]

FromInt(n) == IF n >= 0 THEN FromNat(n) ELSE OP_SUB(LiteralZero, FromNat(-n))

\* sign extension of the low `bits` bits to the whole word
SignExtend(a, bits) ==
    [i \in BitIndex |-> IF i < bits THEN a[i] ELSE a[bits - 1]]

\* Literal::signedInt() of a word as a number
RECURSIVE Magnitude(_, _)
Magnitude(w, i) ==
    IF i = 0 THEN 0 ELSE Magnitude(w, i - 1) + w[i - 1] * Pow2(i - 1)

signedInt(w) ==
    IF IsNegative(w) THEN -Magnitude(OP_NOT(w), WordBits - 1) - 1
    ELSE Magnitude(w, WordBits - 1)

(***************************************************************************)
(* DataType: scalar and vector types carry a bit width and a number of     *)
(* elements; pointer, array and struct types are the complex types         *)
(***************************************************************************)
ScalarType(kind, bits, num) == [kind |-> kind, bits |-> bits, num |-> num]

TYPE_INT8 == ScalarType("int", 8, 1)

TYPE_INT16 == ScalarType("int", 16, 1)

TYPE_INT32 == ScalarType("int", 32, 1)

TYPE_INT64 == ScalarType("int", 64, 1)

TYPE_BOOL == ScalarType("int", 1, 1)

TYPE_FLOAT == ScalarType("float", 32, 1)

TYPE_UNKNOWN == [kind |-> "unknown"]

PointerType(elem, addressSpace) ==
    [kind |-> "pointer", elem |-> elem, addressSpace |-> addressSpace]

ArrayType(elem, size) == [kind |-> "array", elem |-> elem, size |-> size]

StructType(fields) == [kind |-> "struct", fields |-> fields]

IsScalarKind(type) == type.kind \in {"int", "float"}

\* DataType::getPointerType, getArrayType, getStructType, isVectorType
getPointerType(type) == type.kind = "pointer"

getArrayType(type) == type.kind = "array"

getStructType(type) == type.kind = "struct"

isVectorType(type) == IsScalarKind(type) /\ type.num > 1

\* DataType::getVectorWidth and toVectorType
getVectorWidth(type) == IF IsScalarKind(type) THEN type.num ELSE 1

toVectorType(type, num) == [type EXCEPT !.num = num]

\* the types DataType::getScalarBitCount has an answer for
HasScalarBitCount(type) == type.kind \in {"int", "float", "pointer"}

getScalarBitCount(type) == IF type.kind = "pointer" THEN WordBits ELSE type.bits

\* DataType::getElementType(index)
getElementType(type, index) ==
    CASE type.kind \in {"pointer", "array"} -> type.elem
      [] type.kind = "struct" -> type.fields[index + 1]
      [] OTHER -> toVectorType(type, 1)

\* DataType::getPhysicalWidth, the packed width in bytes
RECURSIVE getPhysicalWidth(_)
RECURSIVE SumWidths(_, _)
SumWidths(fields, n) ==
    IF n = 0 THEN 0 ELSE SumWidths(fields, n - 1) + getPhysicalWidth(fields[n])

getPhysicalWidth(type) ==
    CASE type.kind = "pointer" -> 4
      [] type.kind = "array" -> type.size * getPhysicalWidth(type.elem)
      [] type.kind = "struct" -> SumWidths(type.fields, Len(type.fields))
      [] OTHER -> type.num * IF type.bits < 8 THEN 1 ELSE type.bits \div 8

\* StructType::getStructSize(index): the offset of the field at that index
getStructSize(type, index) == SumWidths(type.fields, index)

(***************************************************************************)
(* Value: a literal, a SIMD vector of literals, a local or undefined       *)
(***************************************************************************)
LiteralValue(w, type) == [tag |-> "literal", lit |-> w, type |-> type]

VectorValue(lanes, type) == [tag |-> "vector", lanes |-> lanes, type |-> type]

LocalValue(name, type) == [tag |-> "local", name |-> name, type |-> type]

UNDEFINED_VALUE == [tag |-> "undefined", type |-> TYPE_UNKNOWN]

INT_ZERO == LiteralValue(LiteralZero, TYPE_INT8)

INT_MINUS_ONE == LiteralValue(LiteralMinusOne, TYPE_INT32)

\* Value::getLiteralValue, checkVector, checkLocal, isWriteable
getLiteralValue(v) == v.tag = "literal"

checkVector(v) == v.tag = "vector"

checkLocal(v) == v.tag = "local"

isWriteable(v) == v.tag = "local"

\* Value::isZeroInitializer
isZeroInitializer(v) ==
    \/ v.tag = "literal" /\ v.lit = LiteralZero
    \/ v.tag = "vector" /\ \A l \in DOMAIN v.lanes : v.lanes[l] = LiteralZero

(***************************************************************************)
(* The method the helpers work on: the instructions emitted at the walker  *)
(* and the locals, each with its type and its reference pair              *)
(***************************************************************************)
NumLanes == 2

Lanes == 1..NumLanes

ANY_ELEMENT == -1

\* the reference pair of a local that refers to nothing
NoReference == [base |-> << "", 0 >>, index |-> ANY_ELEMENT]

Instruction(op, out, args, decorations) ==
    [op |-> op, out |-> out, args |-> args, decorations |-> decorations]

\* the sequence s with e put in front of its k-th element
InsertAt(s, k, e) == SubSeq(s, 1, k - 1) \o << e >> \o SubSeq(s, k, Len(s))

\* a mutant: it.nextInBlock() is left out, the walker stays at the new
\* instruction
emplaceStays(m, op, out, args, decorations) ==
    [m EXCEPT !.instructions =
                  InsertAt(@, m.it, Instruction(op, out, args, decorations))]

\* it.emplace(...); it.nextInBlock(): the instruction is put in front of the
\* one the walker is at, and the walker is at that one again
emplace(m, op, out, args, decorations) ==
    [m EXCEPT !.instructions =
                  InsertAt(@, m.it, Instruction(op, out, args, decorations)),
              !.it = @ + 1]

\* Method::addNewLocal: the value of the new local, and the method with it
NewLocal(m, type, name) ==
    LocalValue(<< name, Cardinality(DOMAIN m.locals) + 1 >>, type)

addNewLocal(m, type, name) ==
    [m EXCEPT !.locals =
        (NewLocal(m, type, name).name :> [type |-> type, reference |-> NoReference])
        @@ @]

\* Value::getSingleWriter() with the decoration UNSIGNED_RESULT
Writers(m, v) ==
    {i \in DOMAIN m.instructions : m.instructions[i].out.name = v.name}

SingleWriterUnsigned(m, v) ==
    /\ checkLocal(v)
    /\ Cardinality(Writers(m, v)) = 1
    /\ \A i \in Writers(m, v) :
          "UNSIGNED_RESULT" \in m.instructions[i].decorations

(***************************************************************************)
(* What the emitted instructions compute: every register holds one word    *)
(* per SIMD lane, a literal is the same in every lane                      *)
(***************************************************************************)
RECURSIVE MulFrom(_, _, _)
MulFrom(a, b, i) ==
    IF i = WordBits THEN LiteralZero
    ELSE OP_ADD(IF b[i] = 1 THEN OP_SHL(a, FromNat(i)) ELSE LiteralZero,
                MulFrom(a, b, i + 1))

OP_MUL(a, b) == MulFrom(a, b, 0)

ValueOf(v, env) ==
    CASE v.tag = "literal" -> [l \in Lanes |-> v.lit]
      [] v.tag = "vector" -> v.lanes
      [] v.tag = "local" -> env[v.name]

Apply(ins, a, b) ==
    CASE ins.op = "asr" -> OP_ASR(a, b)
      [] ins.op = "xor" -> OP_XOR(a, b)
      [] ins.op = "sub" -> OP_SUB(a, b)
      [] ins.op = "add" -> OP_ADD(a, b)
      [] ins.op = "mul" -> OP_MUL(a, b)
      [] ins.op = "and" -> OP_AND(a, b)
      [] ins.op = "or" -> OP_OR(a, b)
      [] ins.op = "shl" -> OP_SHL(a, b)
      [] ins.op = "shr" -> OP_SHR(a, b)
      [] ins.op = "ror" -> OP_ROR(a, b)
      [] ins.op = "sext" -> SignExtend(a, ShiftOffset(b) + 1)

Execute(ins, env) ==
    (ins.out.name :>
        [l \in Lanes |->
            Apply(ins, ValueOf(ins.args[1], env)[l], ValueOf(ins.args[2], env)[l])])
    @@ env

RECURSIVE Eval(_, _)
Eval(instrs, env) ==
    IF instrs = << >> THEN env ELSE Eval(Tail(instrs), Execute(Head(instrs), env))

(***************************************************************************)
(* insertMakePositive and insertRestoreSign                                *)
(*                                                                         *)
(* A helper takes the method and its arguments and gives the set of its    *)
(* possible results: the error it ended with ("none" when it returned),    *)
(* the method afterwards and the values of its reference parameters.       *)
(***************************************************************************)
Result(error, m, dest, writeIsNegative) ==
    [error |-> error, method |-> m, dest |-> dest,
     writeIsNegative |-> writeIsNegative]

\* the expression -lit->signedInt() as a Literal: the negation of an
\* int32_t in the 32 bits of the literal, so that the most negative value
\* is its own negation
Negate(w) == OP_SUB(LiteralZero, w)

\* a mutant: the literal is passed on without the negation
MakePositiveLiteralKeepsSign(m, src, dest, writeIsNegative) ==
    {Result("none", m, src, IF IsNegative(src.lit) THEN INT_MINUS_ONE ELSE INT_ZERO)}

\* lines 24-29: the literal is folded
MakePositiveLiteral(m, src, dest, writeIsNegative) ==
    IF IsNegative(src.lit)
    THEN {Result("none", m, LiteralValue(Negate(src.lit), src.type), INT_MINUS_ONE)}
    ELSE {Result("none", m, src, INT_ZERO)}

\* lines 30-43: the vector of literals is folded lane by lane
MakePositiveVector(m, src, dest, writeIsNegative) ==
    LET negative(i) == IsNegative(src.lanes[i])
        tmpDest == [i \in DOMAIN src.lanes |->
                       IF negative(i) THEN Negate(src.lanes[i]) ELSE src.lanes[i]]
        tmpNegative == [i \in DOMAIN src.lanes |->
                           IF negative(i) THEN LiteralMinusOne ELSE LiteralZero]
    IN  {Result("none", m, VectorValue(tmpDest, src.type),
                VectorValue(tmpNegative, src.type))}

\* lines 44-50: the value is already unsigned
MakePositiveUnsigned(m, src, dest, writeIsNegative) ==
    {Result("none", m, src, INT_ZERO)}

\* insertSignExtension(it, method, src, srcInt, true)
insertSignExtension(m, src, srcInt) ==
    emplace(m, "sext", srcInt,
            << src, LiteralValue(FromNat(getScalarBitCount(src.type) - 1), TYPE_INT8) >>,
            {})

\* lines 74-90 without the test of the bit count
MakePositiveEmit(m, src, dest, writeIsNegative) ==
    LET narrow == getScalarBitCount(src.type) < 32
        int32 == toVectorType(TYPE_INT32, getVectorWidth(src.type))
        \* lines 74-80
        srcInt == IF narrow THEN NewLocal(m, int32, "%sext") ELSE src
        m1 == IF narrow
              THEN insertSignExtension(addNewLocal(m, int32, "%sext"), src, srcInt)
              ELSE m
        \* lines 81-84
        sign == IF ~checkLocal(writeIsNegative)
                THEN NewLocal(m1, int32, "%sign") ELSE writeIsNegative
        m2 == IF ~checkLocal(writeIsNegative)
              THEN addNewLocal(m1, int32, "%sign") ELSE m1
        m3 == emplace(m2, "asr", sign,
                      << srcInt, LiteralValue(FromNat(31), TYPE_INT8) >>, {})
        \* line 86
        tmp == NewLocal(m3, src.type, "%twos_complement")
        m4 == emplace(addNewLocal(m3, src.type, "%twos_complement"),
                      "xor", tmp, << srcInt, sign >>, {})
        \* lines 88-90
        unsigned == IF ~isWriteable(dest)
                    THEN NewLocal(m4, src.type, "%unsigned") ELSE dest
        m5 == IF ~isWriteable(dest)
              THEN addNewLocal(m4, src.type, "%unsigned") ELSE m4
        m6 == emplace(m5, "sub", unsigned, << tmp, sign >>, {"UNSIGNED_RESULT"})
    IN  {Result("none", m6, unsigned, sign)}

\* a mutant: the sequence is emitted whatever the type of src is
MakePositiveSequenceUnchecked(m, src, dest, writeIsNegative) ==
    MakePositiveEmit(m, [src EXCEPT !.type = TYPE_INT32], dest, writeIsNegative)

\* lines 51-91: getScalarBitCount fails for a type that has none, before
\* anything is emitted or assigned
MakePositiveSequence(m, src, dest, writeIsNegative) ==
    IF ~HasScalarBitCount(src.type)
    THEN {Result("InvalidOperand", m, dest, writeIsNegative)}
    ELSE MakePositiveEmit(m, src, dest, writeIsNegative)

insertMakePositive(m, src, dest, writeIsNegative) ==
    IF getLiteralValue(src) THEN MakePositiveLiteral(m, src, dest, writeIsNegative)
    ELSE IF checkVector(src) THEN MakePositiveVector(m, src, dest, writeIsNegative)
    ELSE IF SingleWriterUnsigned(m, src)
         THEN MakePositiveUnsigned(m, src, dest, writeIsNegative)
    ELSE MakePositiveSequence(m, src, dest, writeIsNegative)

\* lines 98-101: both are literals and the result is folded
RestoreSignLiteral(m, src, dest, sign) ==
    IF isZeroInitializer(sign)
    THEN {Result("none", m, src, sign)}
    ELSE {Result("none", m, LiteralValue(Negate(src.lit), src.type), sign)}

\* a mutant: the mask is added where it has to be subtracted
RestoreSignSequenceAdds(m, src, dest, sign) ==
    LET tmp == NewLocal(m, src.type, "%twos_complement")
        m1 == emplace(addNewLocal(m, src.type, "%twos_complement"),
                      "xor", tmp, << src, sign >>, {})
        out == IF ~isWriteable(dest)
               THEN NewLocal(m1, src.type, "%twos_complement") ELSE dest
        m2 == IF ~isWriteable(dest)
              THEN addNewLocal(m1, src.type, "%twos_complement") ELSE m1
    IN  {Result("none", emplace(m2, "add", out, << tmp, sign >>, {}), out, sign)}

\* lines 102-128
RestoreSignSequence(m, src, dest, sign) ==
    LET tmp == NewLocal(m, src.type, "%twos_complement")
        m1 == emplace(addNewLocal(m, src.type, "%twos_complement"),
                      "xor", tmp, << src, sign >>, {})
        out == IF ~isWriteable(dest)
               THEN NewLocal(m1, src.type, "%twos_complement") ELSE dest
        m2 == IF ~isWriteable(dest)
              THEN addNewLocal(m1, src.type, "%twos_complement") ELSE m1
    IN  {Result("none", emplace(m2, "sub", out, << tmp, sign >>, {}), out, sign)}

insertRestoreSign(m, src, dest, sign) ==
    IF getLiteralValue(src) /\ getLiteralValue(sign)
    THEN RestoreSignLiteral(m, src, dest, sign)
    ELSE RestoreSignSequence(m, src, dest, sign)

(***************************************************************************)
(* Calls of the sign helpers on a method                                   *)
(***************************************************************************)
MaxCalls == 2

\* the method as the helpers see it
Method == [instructions |-> instructions, locals |-> locals, it |-> it]

\* the reference pair of the local a value names
ReferenceOf(ls, v) ==
    IF checkLocal(v) /\ v.name \in DOMAIN ls THEN ls[v.name].reference
    ELSE NoReference

\* the record of one call: the helper, its arguments, how it ended, the
\* values of its reference parameters afterwards, the number of
\* instructions and the locals before and after, the instructions and the
\* walker it was given, and the reference pair of
\* the local given as dest before and after
Call(fn, args, r) ==
    [fn |-> fn, args |-> args, error |-> r.error, dest |-> r.dest,
     writeIsNegative |-> r.writeIsNegative,
     first |-> Len(instructions), last |-> Len(r.method.instructions),
     block |-> instructions, walker |-> it,
     localsBefore |-> DOMAIN locals, localsAfter |-> DOMAIN r.method.locals,
     referenceBefore |-> ReferenceOf(locals, args.dest),
     referenceAfter |-> ReferenceOf(r.method.locals, args.dest)]

\* an error is an exception of the caller's pass: nothing is called after it
MayCall == Len(calls) < MaxCalls /\ \A i \in DOMAIN calls : calls[i].error = "none"

\* the method, the walker and the record of calls after a call
ReturnMethod(fn, args, r) ==
    /\ instructions' = r.method.instructions
    /\ locals' = r.method.locals
    /\ calls' = Append(calls, Call(fn, args, r))
    /\ it' = r.method.it
    /\ UNCHANGED registers
    /\ UNCHANGED << driverVars, analysis, walk >>

Return(fn, args, r) == ReturnMethod(fn, args, r) /\ UNCHANGED range

\* the parameters of the method and the locals its caller holds
ParamX == LocalValue(<< "x", 0 >>, TYPE_INT32)

ParamH == LocalValue(<< "h", 0 >>, TYPE_INT16)

ParamS == LocalValue(<< "s", 0 >>, StructType(<< TYPE_INT32, TYPE_INT32, TYPE_FLOAT >>))

LocalD == LocalValue(<< "d", 0 >>, TYPE_INT32)

LocalN == LocalValue(<< "n", 0 >>, TYPE_INT32)

LocalsOf(values) ==
    [name \in {v.name : v \in values} |->
        [type |-> (CHOOSE v \in values : v.name = name).type,
         reference |-> NoReference]]

\* the words a register is tried with
SampleWords == {LiteralZero, FromInt(-7), INT_MIN, Word(17, 34, 51, 68)}

SignLiterals ==
    {LiteralValue(w, TYPE_INT32) : w \in {LiteralZero, FromInt(-7), INT_MIN}}

\* vectors with a negative first lane and positive other lanes
SignVectors ==
    {VectorValue([l \in Lanes |-> IF l = 1 THEN w ELSE FromInt(7)],
                 toVectorType(TYPE_INT32, NumLanes)) :
        w \in {FromInt(-7), INT_MIN}}

\* the results of the calls made so far
Produced(fn) == {i \in DOMAIN calls : calls[i].fn = fn /\ calls[i].error = "none"}

\* the values the caller makes positive: constants, its parameters, the
\* undefined value and what an earlier call produced
FoldedSources == SignLiterals \cup SignVectors

SequenceSources ==
    {ParamX, ParamH, ParamS, UNDEFINED_VALUE}
    \cup {calls[i].dest : i \in Produced("insertMakePositive")}

\* the caller passes fresh values for the results, or locals of its own when
\* the value is not a constant
SignArguments ==
    {<< src, UNDEFINED_VALUE, UNDEFINED_VALUE >> :
        src \in FoldedSources \cup SequenceSources}
    \cup {<< src, LocalD, LocalN >> : src \in SequenceSources}

\* a method with the given locals and no instruction, before any call; the
\* driver is not part of these runs
InitHelper(values, regs) ==
    /\ InitDriver(Configurations({"NONE"}, {}, {0}), {SingleKernel})
    /\ instructions = << >>
    /\ locals = LocalsOf(values)
    /\ calls = << >>
    /\ registers \in regs
    /\ it = 1
    /\ range = NoRange
    /\ analysis = NoAnalysis
    /\ walk = NoWalk

\* every lane of x holds the same word, h holds its low half
SignRegisters ==
    {(ParamX.name :> [l \in Lanes |-> w])
     @@ (ParamH.name :> [l \in Lanes |-> OP_AND(w, Word(0, 0, 255, 255))]) :
        w \in SampleWords}

InitSign == InitHelper({ParamX, ParamH, ParamS, LocalD, LocalN}, SignRegisters)

CallMakePositive ==
    /\ MayCall
    /\ \E in \in SignArguments :
          \E r \in insertMakePositive(Method, in[1], in[2], in[3]) :
              Return("insertMakePositive",
                     [src |-> in[1], dest |-> in[2], writeIsNegative |-> in[3]], r)

\* the caller restores the sign of a value it made positive, or of a value
\* of its own with a sign of its own
RestoreArguments ==
    {<< calls[i].dest, dest, calls[i].writeIsNegative >> :
        i \in Produced("insertMakePositive"), dest \in {UNDEFINED_VALUE, LocalD}}
    \cup {<< LiteralValue(FromInt(7), TYPE_INT32), UNDEFINED_VALUE, INT_MINUS_ONE >>,
          << ParamX, UNDEFINED_VALUE, INT_MINUS_ONE >>}

CallRestoreSign ==
    /\ MayCall
    /\ \E in \in RestoreArguments :
          \E r \in insertRestoreSign(Method, in[1], in[2], in[3]) :
              Return("insertRestoreSign",
                     [src |-> in[1], dest |-> in[2], sign |-> in[3]], r)

NextSign ==
    \/ CallMakePositive
    \/ CallRestoreSign

SpecSign == InitSign /\ [][NextSign]_vars


(***************************************************************************)
(* Reading the record of calls                                             *)
(***************************************************************************)
\* what the registers hold after the first k emitted instructions
EnvAt(k) == Eval(SubSeq(instructions, 1, k), registers)

Emitted(c) == c.last - c.first

Is32Bit(v) == v.type.kind = "int" /\ v.type.bits = 32

\* call i made a 32-bit value positive and call i + 1 restores the sign of
\* its result with the mask it wrote
RoundTripAt(i) ==
    /\ i \in DOMAIN calls /\ i + 1 \in DOMAIN calls
    /\ calls[i].fn = "insertMakePositive"
    /\ calls[i].error = "none"
    /\ Is32Bit(calls[i].args.src)
    /\ calls[i + 1].fn = "insertRestoreSign"
    /\ calls[i + 1].args.src = calls[i].dest
    /\ calls[i + 1].args.sign = calls[i].writeIsNegative

\* the value restored by call i + 1 is the value call i was given
RoundTripRestores(i) ==
    /\ calls[i + 1].error = "none"
    /\ ValueOf(calls[i + 1].dest, EnvAt(calls[i + 1].last))
       = ValueOf(calls[i].args.src, EnvAt(calls[i].first))

\* C11: restoring the sign of what insertMakePositive made of a 32-bit value
\* x, with the mask it wrote, gives x again, when both calls fold literals
\* and when they emit their sequences, for every x including 0 and INT_MIN
C11_RoundTrip == \A i \in DOMAIN calls : RoundTripAt(i) => RoundTripRestores(i)

\* both sequences were emitted for a register that holds INT_MIN
C11_Witness ==
    /\ RoundTripAt(1)
    /\ calls[1].args.src = ParamX
    /\ \A l \in Lanes : registers[ParamX.name][l] = INT_MIN
    /\ Emitted(calls[1]) = 3
    /\ Emitted(calls[2]) = 2
    /\ ValueOf(calls[1].dest, EnvAt(calls[1].last)) = registers[ParamX.name]
    /\ ValueOf(calls[2].dest, EnvAt(calls[2].last)) = registers[ParamX.name]

\* C18: for a literal src insertMakePositive returns without emitting
\* anything, dest is the absolute value (INT_MIN for INT_MIN) and isNegative
\* is -1 exactly when the literal is negative, else 0
C18_LiteralFolded ==
    \A i \in DOMAIN calls :
        (calls[i].fn = "insertMakePositive" /\ getLiteralValue(calls[i].args.src))
        => LET src == calls[i].args.src
           IN  /\ calls[i].error = "none"
               /\ Emitted(calls[i]) = 0
               /\ getLiteralValue(calls[i].dest)
               /\ (src.lit # INT_MIN =>
                      signedInt(calls[i].dest.lit) =
                         (IF signedInt(src.lit) < 0
                          THEN -signedInt(src.lit) ELSE signedInt(src.lit)))
               /\ calls[i].writeIsNegative =
                     (IF signedInt(src.lit) < 0 THEN INT_MINUS_ONE ELSE INT_ZERO)
               /\ (src.lit = FromInt(-7) => calls[i].dest.lit = FromInt(7))
               /\ (src.lit = INT_MIN => calls[i].dest.lit = INT_MIN)

\* the literals -7 and INT_MIN were made positive
C18_Witness ==
    /\ Len(calls) = 2
    /\ calls[1].fn = "insertMakePositive"
    /\ calls[1].args.src = LiteralValue(FromInt(-7), TYPE_INT32)
    /\ calls[1].dest = LiteralValue(FromInt(7), TYPE_INT32)
    /\ calls[2].fn = "insertMakePositive"
    /\ calls[2].args.src = LiteralValue(INT_MIN, TYPE_INT32)
    /\ calls[2].dest = LiteralValue(INT_MIN, TYPE_INT32)
    /\ calls[2].writeIsNegative = INT_MINUS_ONE
    /\ instructions = << >>

\* src is the undefined value or a value of a type without scalar bit count
NoBitCount(v) == v.tag = "undefined" \/ ~HasScalarBitCount(v.type)

\* C19: given the undefined value or a value whose type has no scalar bit
\* count, insertMakePositive fails with InvalidOperand, has emitted nothing
\* and has assigned neither dest nor isNegative
C19_InvalidOperand ==
    \A i \in DOMAIN calls :
        (calls[i].fn = "insertMakePositive" /\ NoBitCount(calls[i].args.src))
        => /\ calls[i].error = "InvalidOperand"
           /\ Emitted(calls[i]) = 0
           /\ calls[i].localsAfter = calls[i].localsBefore
           /\ calls[i].dest = calls[i].args.dest
           /\ calls[i].writeIsNegative = calls[i].args.writeIsNegative

\* both kinds of src were tried, after a call that emitted its sequence
C19_Witness ==
    /\ \E i \in DOMAIN calls :
          calls[i].fn = "insertMakePositive" /\ Emitted(calls[i]) > 0
    /\ \E i \in DOMAIN calls :
          /\ calls[i].fn = "insertMakePositive"
          /\ calls[i].error = "InvalidOperand"
          /\ calls[i].args.src \in {UNDEFINED_VALUE, ParamS}
          /\ calls[i].args.dest = LocalD

(***************************************************************************)
(* insertByteSwap                                                          *)
(***************************************************************************)
\* assign(it, type, name) = a op b: a new local written by one instruction
assign(m, type, name, op, a, b) ==
    emplace(addNewLocal(m, type, name), op, NewLocal(m, type, name), << a, b >>, {})

\* the literal operands 8_val, 0x000000FF_val, ...
Val(A, B, C, D) == LiteralValue(Word(A, B, C, D), TYPE_INT32)

\* lines 266-277
ByteSwap16(m, src, dest) ==
    LET tmpA0 == NewLocal(m, src.type, "byte_swap")
        m1 == assign(m, src.type, "byte_swap", "shr", src, Val(0, 0, 0, 8))
        tmpB0 == NewLocal(m1, src.type, "byte_swap")
        m2 == assign(m1, src.type, "byte_swap", "shl", src, Val(0, 0, 0, 8))
        tmpA1 == NewLocal(m2, src.type, "byte_swap")
        m3 == assign(m2, src.type, "byte_swap", "and", tmpA0, Val(0, 0, 0, 255))
        tmpB1 == NewLocal(m3, src.type, "byte_swap")
        m4 == assign(m3, src.type, "byte_swap", "and", tmpB0, Val(0, 0, 255, 0))
    IN  emplace(m4, "or", dest, << tmpA1, tmpB1 >>, {})

\* lines 281-302
ByteSwap32(m, src, dest) ==
    LET tmpAC0 == NewLocal(m, src.type, "byte_swap")
        m1 == emplace(addNewLocal(m, src.type, "byte_swap"), "ror", tmpAC0,
                      << src, LiteralValue(FromNat(24), TYPE_INT8) >>, {})
        tmpBD0 == NewLocal(m1, src.type, "byte_swap")
        m2 == emplace(addNewLocal(m1, src.type, "byte_swap"), "ror", tmpBD0,
                      << src, LiteralValue(FromNat(16), TYPE_INT8) >>, {})
        tmpA1 == NewLocal(m2, src.type, "byte_swap")
        m3 == assign(m2, src.type, "byte_swap", "and", tmpAC0, Val(0, 0, 0, 255))
        tmpB1 == NewLocal(m3, src.type, "byte_swap")
        m4 == assign(m3, src.type, "byte_swap", "and", tmpBD0, Val(0, 0, 255, 0))
        tmpC1 == NewLocal(m4, src.type, "byte_swap")
        m5 == assign(m4, src.type, "byte_swap", "and", tmpAC0, Val(0, 255, 0, 0))
        tmpD1 == NewLocal(m5, src.type, "byte_swap")
        m6 == assign(m5, src.type, "byte_swap", "and", tmpBD0, Val(255, 0, 0, 0))
        tmpAB2 == NewLocal(m6, src.type, "byte_swap")
        m7 == assign(m6, src.type, "byte_swap", "or", tmpA1, tmpB1)
        tmpCD2 == NewLocal(m7, src.type, "byte_swap")
        m8 == assign(m7, src.type, "byte_swap", "or", tmpC1, tmpD1)
    IN  emplace(m8, "or", dest, << tmpAB2, tmpCD2 >>, {})

\* a mutant: every width but two bytes is taken for four bytes
insertByteSwapNoElse(m, src, dest) ==
    IF ~HasScalarBitCount(src.type)
    THEN {Result("InvalidOperand", m, dest, UNDEFINED_VALUE)}
    ELSE IF getScalarBitCount(src.type) \div 8 = 2
         THEN {Result("none", ByteSwap16(m, src, dest), dest, UNDEFINED_VALUE)}
         ELSE {Result("none", ByteSwap32(m, src, dest), dest, UNDEFINED_VALUE)}

\* lines 252-309
insertByteSwap(m, src, dest) ==
    IF ~HasScalarBitCount(src.type)
    THEN {Result("InvalidOperand", m, dest, UNDEFINED_VALUE)}
    ELSE LET numBytes == getScalarBitCount(src.type) \div 8
         IN  IF numBytes = 2
             THEN {Result("none", ByteSwap16(m, src, dest), dest, UNDEFINED_VALUE)}
             ELSE IF numBytes = 4
             THEN {Result("none", ByteSwap32(m, src, dest), dest, UNDEFINED_VALUE)}
             ELSE {Result("UnsupportedWidth", m, dest, UNDEFINED_VALUE)}

\* the values the caller swaps, by width, and the locals it takes the results in
SwapSource(type) == LocalValue(<< "src", type.bits >>, type)

SwapDest(type, k) == LocalValue(<< "dest", 10 * type.bits + k >>, type)

SwapTypes == {TYPE_BOOL, TYPE_INT8, TYPE_INT16, TYPE_INT32, TYPE_INT64}

\* a parameter into the first result local of its type, a constant, or the
\* result of call i into the next result local
SwapArguments ==
    {<< SwapSource(type), SwapDest(type, 1) >> : type \in SwapTypes}
    \cup {<< Val(17, 34, 51, 68), SwapDest(TYPE_INT32, 1) >>}
    \cup {<< calls[i].dest, SwapDest(calls[i].dest.type, i + 1) >> :
            i \in Produced("insertByteSwap")}

\* every lane of a parameter holds the same word; a 16-bit parameter holds
\* anything in the upper half of its register
SwapWords ==
    {LiteralZero, Word(17, 34, 51, 68), Word(128, 255, 127, 1), Word(0, 0, 255, 0),
     Word(18, 52, 18, 52), LiteralMinusOne}

SwapRegisters ==
    {[name \in {SwapSource(type).name : type \in SwapTypes} |-> [l \in Lanes |-> w]] :
        w \in SwapWords}

InitByteSwap ==
    InitHelper({SwapSource(type) : type \in SwapTypes}
               \cup {SwapDest(type, k) : type \in SwapTypes, k \in 1..(MaxCalls + 1)},
               SwapRegisters)

CallByteSwap ==
    /\ MayCall
    /\ \E in \in SwapArguments :
          \E r \in insertByteSwap(Method, in[1], in[2]) :
              Return("insertByteSwap", [src |-> in[1], dest |-> in[2]], r)

NextByteSwap == CallByteSwap

SpecByteSwap == InitByteSwap /\ [][NextByteSwap]_vars

\* the byte reversal of a value of the given width, and the value itself, as
\* words with nothing above the width
Reversed(w, bits) ==
    IF bits = 16 THEN Word(0, 0, ByteOf(w, 0), ByteOf(w, 1))
    ELSE Word(ByteOf(w, 0), ByteOf(w, 1), ByteOf(w, 2), ByteOf(w, 3))

Truncated(w, bits) == [i \in BitIndex |-> IF i < bits THEN w[i] ELSE 0]

Swapped(i) == i \in Produced("insertByteSwap")

WidthOf(i) == getScalarBitCount(calls[i].args.src.type)

\* the value call i was given and the value of its dest after it, by lane
SwapInput(i) == ValueOf(calls[i].args.src, EnvAt(calls[i].first))

SwapOutput(i) == ValueOf(calls[i].dest, EnvAt(calls[i].last))

\* C12: the sequence insertByteSwap emits leaves in dest the bytes of src in
\* reverse order: D C B A for the 32-bit A B C D and B A for the 16-bit A B
C12_ByteReversal ==
    \A i \in DOMAIN calls : Swapped(i) =>
        \A l \in Lanes :
            Truncated(SwapOutput(i)[l], WidthOf(i))
            = Reversed(SwapInput(i)[l], WidthOf(i))

\* C13: swapping the bytes of the result of a byte swap gives the first
\* value again, for width 16 and width 32
C13_Involution ==
    \A i \in DOMAIN calls :
        (Swapped(i) /\ Swapped(i + 1) /\ calls[i + 1].args.src = calls[i].dest)
        => \A l \in Lanes :
               Truncated(SwapOutput(i + 1)[l], WidthOf(i))
               = Truncated(SwapInput(i)[l], WidthOf(i))

\* C20: for a width that is neither 16 nor 32 insertByteSwap fails with
\* UnsupportedWidth and has emitted no instruction and created no local
C20_UnsupportedWidth ==
    \A i \in DOMAIN calls :
        (calls[i].fn = "insertByteSwap" /\ WidthOf(i) \notin {16, 32})
        => /\ calls[i].error = "UnsupportedWidth"
           /\ Emitted(calls[i]) = 0
           /\ calls[i].localsAfter = calls[i].localsBefore

\* a 64-bit value was given after a call that did swap
C20_Witness ==
    /\ Len(calls) = 2
    /\ Swapped(1)
    /\ Emitted(calls[1]) > 0
    /\ calls[2].args.src.type = TYPE_INT64
    /\ calls[2].error = "UnsupportedWidth"

(***************************************************************************)
(* insertCalculateIndices                                                  *)
(***************************************************************************)
\* Method::createPointerType
createPointerType(elem, addressSpace) == PointerType(elem, addressSpace)

\* the state of the loop of lines 138-210: the method, the offset so far,
\* the type reached and the error thrown, if any
LoopState(m, offset, type, error) ==
    [method |-> m, offset |-> offset, subContainerType |-> type, error |-> error]

\* index * width as a literal of TYPE_INT32, lines 147-149 and 178-180
ScaledLiteral(index, width) ==
    LiteralValue(FromInt(signedInt(index.lit) * width), TYPE_INT32)

\* lines 190-209: the sub-offset is added to the offset
AddOffset(m, offset, subOffset, type) ==
    IF getLiteralValue(offset) /\ getLiteralValue(subOffset)
    THEN LoopState(m, LiteralValue(OP_ADD(offset.lit, subOffset.lit), TYPE_INT32),
                   type, "none")
    ELSE IF isZeroInitializer(offset) THEN LoopState(m, subOffset, type, "none")
    ELSE IF isZeroInitializer(subOffset) THEN LoopState(m, offset, type, "none")
    ELSE LoopState(assign(m, TYPE_INT32, "%index_offset", "add", offset, subOffset),
                   NewLocal(m, TYPE_INT32, "%index_offset"), type, "none")

\* lines 140-209: one index; isFront is &index == &indices.front()
IndexStep(st, index, isFront, firstIndexIsElement) ==
    LET m == st.method
        type == st.subContainerType
        width == getPhysicalWidth(getElementType(type, 0))
        widthLiteral == LiteralValue(FromNat(width), TYPE_INT32)
    IN  IF getPointerType(type) \/ getArrayType(type)
        THEN LET next == IF ~firstIndexIsElement \/ ~isFront
                         THEN getElementType(type, 0) ELSE type
             IN  IF getLiteralValue(index)
                 THEN AddOffset(m, st.offset, ScaledLiteral(index, width), next)
                 ELSE AddOffset(assign(m, TYPE_INT32, "%index_offset", "mul",
                                       index, widthLiteral),
                                st.offset, NewLocal(m, TYPE_INT32, "%index_offset"),
                                next)
        ELSE IF getStructType(type)
        THEN IF ~getLiteralValue(index)
             THEN LoopState(m, st.offset, type, "NonLiteralStructIndex")
             ELSE AddOffset(m, st.offset,
                            LiteralValue(FromNat(getStructSize(type, signedInt(index.lit))),
                                         TYPE_INT32),
                            getElementType(type, signedInt(index.lit)))
        ELSE IF isVectorType(type)
        THEN IF getLiteralValue(index)
             THEN AddOffset(m, st.offset, ScaledLiteral(index, width),
                            getElementType(type, 0))
             ELSE AddOffset(assign(m, TYPE_INT32, "%vector_element_offset", "mul",
                                   index, widthLiteral),
                            st.offset,
                            NewLocal(m, TYPE_INT32, "%vector_element_offset"),
                            getElementType(type, 0))
        ELSE LoopState(m, st.offset, type, "InvalidContainerType")

\* lines 138-210: the indices from position k on; an error ends the loop
RECURSIVE IndexLoop(_, _, _, _)
IndexLoop(st, indices, k, firstIndexIsElement) ==
    IF k > Len(indices) \/ st.error # "none" THEN st
    ELSE IndexLoop(IndexStep(st, indices[k], k = 1, firstIndexIsElement),
                   indices, k + 1, firstIndexIsElement)

\* lines 221-226: the index the reference pair gets; the list is not empty
ReferenceIndex(indices, firstIndexIsElement) ==
    LET single == IF Len(indices) = 1 THEN indices[1] ELSE UNDEFINED_VALUE
        index == IF firstIndexIsElement /\ isZeroInitializer(indices[1])
                 THEN (IF Len(indices) > 1 THEN indices[2] ELSE UNDEFINED_VALUE)
                 ELSE single
    IN  IF getLiteralValue(index) THEN signedInt(index.lit) ELSE ANY_ELEMENT

\* line 227: the reference pair of dest is assigned
SetReference(m, dest, container, refIndex) ==
    [m EXCEPT !.locals[dest.name].reference =
        [base |-> container.name, index |-> refIndex]]

\* lines 229-237: the type dest has to have
FinalType(container, subContainerType, indices, firstIndexIsElement) ==
    IF getArrayType(subContainerType)
    THEN createPointerType(subContainerType.elem,
                           IF getPointerType(container.type)
                           THEN container.type.addressSpace ELSE "private")
    ELSE IF ~(firstIndexIsElement /\ Len(indices) = 1)
    THEN createPointerType(subContainerType, container.type.addressSpace)
    ELSE subContainerType

\* lines 132-250
insertCalculateIndices(m, container, dest, indices, firstIndexIsElement) ==
    LET st == IndexLoop(LoopState(m, INT_ZERO, container.type, "none"),
                        indices, 1, firstIndexIsElement)
        \* line 212
        m1 == emplace(st.method, "add", dest, << container, st.offset >>, {})
        \* line 227
        m2 == SetReference(m1, dest, container,
                           ReferenceIndex(indices, firstIndexIsElement))
    IN  IF st.error # "none"
        THEN {Result(st.error, st.method, dest, UNDEFINED_VALUE)}
        \* line 224: indices.at(0) of an empty list throws std::out_of_range
        ELSE IF firstIndexIsElement /\ indices = << >>
        THEN {Result("out_of_range", m1, dest, UNDEFINED_VALUE)}
        ELSE IF dest.type # FinalType(container, st.subContainerType, indices,
                                      firstIndexIsElement)
        THEN {Result("TypeMismatch", m2, dest, UNDEFINED_VALUE)}
        ELSE {Result("none", m2, dest, UNDEFINED_VALUE)}

\* the containers: a pointer to struct{i32, i32, f32} and a pointer to an
\* array of four vectors of four i32
StructIIF == StructType(<< TYPE_INT32, TYPE_INT32, TYPE_FLOAT >>)

ContainerP == LocalValue(<< "p", 0 >>, PointerType(StructIIF, "global"))

ContainerA ==
    LocalValue(<< "a", 0 >>,
               PointerType(ArrayType(toVectorType(TYPE_INT32, 4), 4), "global"))

\* the locals the caller takes the address in
DestF == LocalValue(<< "f", 0 >>, PointerType(TYPE_FLOAT, "global"))

DestS == LocalValue(<< "t", 0 >>, PointerType(StructIIF, "global"))

DestP == LocalValue(<< "pp", 0 >>, PointerType(ContainerP.type, "global"))

\* the indices: literals and a local
Index(n) == LiteralValue(FromNat(n), TYPE_INT32)

IndexI == LocalValue(<< "i", 0 >>, TYPE_INT32)

IndexLists ==
    {<< >>, << Index(0) >>, << Index(2) >>, << IndexI >>,
     << Index(0), Index(2) >>, << Index(1), Index(2) >>,
     << Index(0), Index(0), Index(2) >>, << Index(0), Index(0), IndexI >>}

ArrayIndexLists ==
    {<< IndexI, Index(0) >>, << IndexI, Index(2), IndexI >>,
     << Index(0), Index(1), IndexI, Index(1) >>,
     << Index(1), Index(1), Index(1), Index(1), Index(1) >>}

IndicesArguments ==
    {<< ContainerP, dest, indices >> :
        dest \in {DestF, DestS, DestP}, indices \in IndexLists}
    \cup {<< ContainerA, DestF, indices >> : indices \in ArrayIndexLists}

IndicesRegisters ==
    {(ContainerP.name :> [l \in Lanes |-> Word(0, 0, 16, 0)])
     @@ (ContainerA.name :> [l \in Lanes |-> Word(0, 0, 32, 0)])
     @@ (IndexI.name :> [l \in Lanes |-> FromNat(l)])}

InitIndices ==
    InitHelper({ContainerP, ContainerA, DestF, DestS, DestP, IndexI}, IndicesRegisters)

CallCalculateIndices ==
    /\ MayCall
    /\ \E in \in IndicesArguments, firstIndexIsElement \in BOOLEAN :
          \E r \in insertCalculateIndices(Method, in[1], in[2], in[3],
                                          firstIndexIsElement) :
              Return("insertCalculateIndices",
                     [container |-> in[1], dest |-> in[2], indices |-> in[3],
                      firstIndexIsElement |-> firstIndexIsElement], r)

NextIndices == CallCalculateIndices

SpecIndices == InitIndices /\ [][NextIndices]_vars

\* call i is a call of insertCalculateIndices that got as far as line 227
Indexed(i) ==
    /\ i \in DOMAIN calls
    /\ calls[i].fn = "insertCalculateIndices"
    /\ calls[i].error \in {"none", "TypeMismatch"}

\* C14: whatever calls of insertCalculateIndices are made, also two with the
\* same destination local, a reference pair that is set is not changed by a
\* later call
C14_ReferenceSetOnce ==
    \A i \in DOMAIN calls :
        (calls[i].fn = "insertCalculateIndices"
            /\ calls[i].referenceBefore # NoReference)
        => calls[i].referenceAfter = calls[i].referenceBefore

\* the call of C15: a pointer to struct{i32, i32, f32}, the literal indices
\* [0, 2], the first index being the element
StructFieldCall(i) ==
    /\ i \in DOMAIN calls
    /\ calls[i].fn = "insertCalculateIndices"
    /\ calls[i].args.container = ContainerP
    /\ calls[i].args.indices = << Index(0), Index(2) >>
    /\ calls[i].args.firstIndexIsElement

\* C15: that call emits exactly one instruction, dest = container + 8, the
\* offset of field 2, and sets the reference of dest to (container, 2)
C15_StructField ==
    \A i \in DOMAIN calls : StructFieldCall(i) =>
        /\ Emitted(calls[i]) = 1
        /\ instructions[calls[i].last] =
              Instruction("add", calls[i].args.dest,
                          << ContainerP, LiteralValue(FromNat(8), TYPE_INT32) >>, {})
        /\ calls[i].referenceAfter = [base |-> ContainerP.name, index |-> 2]

\* the index C16 names for a list of indices
ExpectedIndex(indices, firstIndexIsElement) ==
    LET value(v) == IF getLiteralValue(v) THEN signedInt(v.lit) ELSE ANY_ELEMENT
    IN  IF Len(indices) = 1 THEN value(indices[1])
        ELSE IF firstIndexIsElement /\ Len(indices) > 1
                /\ isZeroInitializer(indices[1])
        THEN value(indices[2])
        ELSE ANY_ELEMENT

\* C16: the index of the reference pair is the single index when there is
\* exactly one (whatever firstIndexIsElement is, also for the index 0), the
\* second index when firstIndexIsElement is set and the first index is zero,
\* and ANY_ELEMENT otherwise
C16_ReferenceIndex ==
    \A i \in DOMAIN calls : Indexed(i) =>
        calls[i].referenceAfter =
            [base |-> calls[i].args.container.name,
             index |-> ExpectedIndex(calls[i].args.indices,
                                     calls[i].args.firstIndexIsElement)]

\* C17: with an empty list of indices the call returns, whatever
\* firstIndexIsElement is, has emitted nothing, dest is the container and
\* the reference of dest is (container, ANY_ELEMENT)
C17_EmptyIndices ==
    \A i \in DOMAIN calls :
        (calls[i].fn = "insertCalculateIndices" /\ calls[i].args.indices = << >>
            /\ calls[i].args.dest = DestP)
        => /\ calls[i].error = "none"
           /\ Emitted(calls[i]) = 0
           /\ ValueOf(calls[i].dest, EnvAt(calls[i].last))
              = ValueOf(calls[i].args.container, EnvAt(calls[i].last))
           /\ calls[i].referenceAfter =
                 [base |-> calls[i].args.container.name, index |-> ANY_ELEMENT]


(***************************************************************************)
(* normalization/AddressCalculation.cpp: insertAddressToOffset             *)
(***************************************************************************)
\* the instructions that are an Operation; a move and a memory instruction
\* are instructions of other classes
OperationCodes ==
    {"add", "sub", "xor", "and", "or", "shl", "shr", "asr", "ror", "mul"}

\* dynamic_cast<const Operation*>(instruction): 0 stands for the null pointer
AsOperation(m, i) ==
    IF i \in DOMAIN m.instructions /\ m.instructions[i].op \in OperationCodes
    THEN i ELSE 0

\* Value::getSingleWriter, Local::getUsers(LocalUse::Type::WRITER)
getSingleWriter(m, v) ==
    IF checkLocal(v) /\ Cardinality(Writers(m, v)) = 1
    THEN CHOOSE i \in Writers(m, v) : TRUE
    ELSE 0

\* Value::hasLocal, IntermediateInstruction::readsLocal
hasLocal(v, local) == checkLocal(v) /\ v.name = local.name

readsLocal(ins, local) == \E k \in DOMAIN ins.args : hasLocal(ins.args[k], local)

\* lines 37-47: the operation that writes ptrValue, the store mem left out
\* when it is one of exactly two writers
IndexOp(m, mem, ptrValue) ==
    LET indexOp == AsOperation(m, getSingleWriter(m, ptrValue))
        writers == Writers(m, ptrValue)
    IN  IF indexOp = 0 /\ Cardinality(writers) = 2 /\ mem \in writers
        THEN AsOperation(m, CHOOSE i \in writers \ {mem} : TRUE)
        ELSE indexOp

\* a mutant: the addition is looked at before the trivial case
insertAddressToOffsetAddFirst(m, baseAddress, mem, ptrValue) ==
    LET indexOp == IndexOp(m, mem, ptrValue)
        ins == m.instructions[indexOp]
    IN  IF indexOp # 0 /\ readsLocal(ins, baseAddress) /\ ins.op = "add"
        THEN {Result("none", m,
                     IF hasLocal(ins.args[1], baseAddress)
                     THEN ins.args[2] ELSE ins.args[1],
                     UNDEFINED_VALUE)}
        ELSE IF hasLocal(ptrValue, baseAddress)
        THEN {Result("none", m, INT_ZERO, UNDEFINED_VALUE)}
        ELSE {Result("none",
                     assign(m, baseAddress.type, "%pointer_diff", "sub",
                            ptrValue, baseAddress),
                     NewLocal(m, baseAddress.type, "%pointer_diff"),
                     UNDEFINED_VALUE)}

\* lines 34-65; the result's dest is the reference parameter out
insertAddressToOffset(m, baseAddress, mem, ptrValue) ==
    LET indexOp == IndexOp(m, mem, ptrValue)
        ins == m.instructions[indexOp]
    IN  IF hasLocal(ptrValue, baseAddress)
        THEN {Result("none", m, INT_ZERO, UNDEFINED_VALUE)}
        ELSE IF indexOp # 0 /\ readsLocal(ins, baseAddress) /\ ins.op = "add"
        THEN {Result("none", m,
                     IF hasLocal(ins.args[1], baseAddress)
                     THEN ins.args[2] ELSE ins.args[1],
                     UNDEFINED_VALUE)}
        ELSE {Result("none",
                     assign(m, baseAddress.type, "%pointer_diff", "sub",
                            ptrValue, baseAddress),
                     NewLocal(m, baseAddress.type, "%pointer_diff"),
                     UNDEFINED_VALUE)}

\* the locals of the method: the base address, two pointers, an offset and a
\* stored value
LocalBase == LocalValue(<< "base", 0 >>, PointerType(TYPE_INT32, "global"))

LocalPtr == LocalValue(<< "ptr", 0 >>, PointerType(TYPE_INT32, "global"))

LocalOther == LocalValue(<< "other", 0 >>, PointerType(TYPE_INT32, "global"))

LocalOffset == LocalValue(<< "offset", 0 >>, TYPE_INT32)

\* the instructions the method may hold before the call: additions and
\* other writers of the pointers, and the store that writes through ptr
MaxBlock == 2

OffsetInstructions ==
    {Instruction("add", LocalPtr, << LocalBase, LocalOffset >>, {}),
     Instruction("add", LocalPtr, << LocalOffset, LocalBase >>, {}),
     Instruction("add", LocalPtr, << LocalOther, LocalOffset >>, {}),
     Instruction("add", LocalPtr, << LocalBase, LocalBase >>, {}),
     Instruction("sub", LocalPtr, << LocalBase, LocalOffset >>, {}),
     Instruction("mov", LocalPtr, << LocalBase >>, {}),
     Instruction("store", LocalPtr, << LocalOffset >>, {}),
     Instruction("add", LocalBase, << LocalBase, LocalOffset >>, {}),
     Instruction("add", LocalOther, << LocalOffset, LocalBase >>, {})}

BlocksOf(pool, n) == UNION {[1..k -> pool] : k \in 0..n}

\* a method that holds some instructions already, the walker at one of them
\* or at the end
InitBlock(values, blocks) ==
    /\ InitDriver(Configurations({"NONE"}, {}, {0}), {SingleKernel})
    /\ instructions \in blocks
    /\ locals = LocalsOf(values)
    /\ calls = << >>
    /\ registers = << >>
    /\ it \in 1..(Len(instructions) + 1)
    /\ range = NoRange
    /\ analysis = NoAnalysis
    /\ walk = NoWalk

InitOffset ==
    InitBlock({LocalBase, LocalPtr, LocalOther, LocalOffset},
              BlocksOf(OffsetInstructions, MaxBlock))

\* the memory instructions of the method, and no memory instruction
MemoryInstructions ==
    {0} \cup {i \in DOMAIN instructions : instructions[i].op = "store"}

CallAddressToOffset ==
    /\ MayCall
    /\ \E mem \in MemoryInstructions, ptrValue \in {LocalBase, LocalPtr, LocalOther} :
          \E r \in insertAddressToOffset(Method, LocalBase, mem, ptrValue) :
              Return("insertAddressToOffset",
                     [method |-> Method, baseAddress |-> LocalBase, mem |-> mem,
                      ptrValue |-> ptrValue, dest |-> UNDEFINED_VALUE], r)

NextOffset == CallAddressToOffset

SpecOffset == InitOffset /\ [][NextOffset]_vars


\* the operation that defines ptrValue as the claim words it: the single
\* writer, or the writer that remains when mem is one of exactly two
DefiningWriters(m, mem, ptrValue) ==
    LET writers == Writers(m, ptrValue)
    IN  IF Cardinality(writers) = 1 THEN writers
        ELSE IF Cardinality(writers) = 2 /\ mem \in writers THEN writers \ {mem}
        ELSE {}

DefiningAdds(m, baseAddress, mem, ptrValue) ==
    {w \in DefiningWriters(m, mem, ptrValue) :
        /\ m.instructions[w].op = "add"
        /\ \E k \in 1..2 : m.instructions[w].args[k] = baseAddress}

OffsetCall(i) == i \in DOMAIN calls /\ calls[i].fn = "insertAddressToOffset"

\* C28: insertAddressToOffset gives out = 0 and emits nothing when ptrValue is
\* the base local; else out = the other operand of the defining add (the
\* single writer, or the writer left when mem is one of exactly two) that
\* reads the base, and emits nothing; else it emits the one instruction
\* out = ptrValue - baseAddress in front of the walker
C28_Precedence ==
    \A i \in DOMAIN calls :
        OffsetCall(i) =>
            LET c == calls[i]
                m == c.args.method
                base == c.args.baseAddress
                ptr == c.args.ptrValue
                adds == DefiningAdds(m, base, c.args.mem, ptr)
            IN  /\ c.error = "none"
                /\ IF ptr = base
                   THEN c.dest = INT_ZERO /\ Emitted(c) = 0
                   ELSE IF adds # {}
                   THEN /\ Emitted(c) = 0
                        /\ \E w \in adds, k \in 1..2 :
                              /\ m.instructions[w].args[k] = base
                              /\ c.dest = m.instructions[w].args[3 - k]
                   ELSE /\ Emitted(c) = 1
                        /\ checkLocal(c.dest)
                        /\ c.dest.name \notin c.localsBefore
                        /\ i = Len(calls) =>
                              /\ instructions =
                                    InsertAt(m.instructions, m.it,
                                             Instruction("sub", c.dest,
                                                         << ptr, base >>, {}))
                              /\ it = m.it + 1

\* ptr is written by ptr = offset + base and by the store mem: the store is
\* left out and the offset is taken from the addition
C28_Witness ==
    \E i \in DOMAIN calls :
        /\ OffsetCall(i)
        /\ calls[i].args.ptrValue = LocalPtr
        /\ Cardinality(Writers(calls[i].args.method, LocalPtr)) = 2
        /\ calls[i].args.mem \in Writers(calls[i].args.method, LocalPtr)
        /\ calls[i].dest = LocalOffset
        /\ Emitted(calls[i]) = 0


(***************************************************************************)
(* normalization/AddressCalculation.cpp: combineAdditions and              *)
(* insertAddressToWorkItemSpecificOffset                                   *)
(*                                                                         *)
(* An Optional is a sequence of at most one element.  The map              *)
(* dynamicAddressParts is the sequence of its entries in the order its     *)
(* iteration gives them, which is any order.                               *)
(***************************************************************************)
NoValue == << >>

Some(v) == << v >>

\* the entry of the map: the added value and its decorations
Part(value, decorations) == [first |-> value, second |-> decorations]

\* a mutant: the decorations of either operand are kept
union_flags(a, b) == a \cup b

\* line 110: the decorations both operands have
intersect_flags(a, b) == a \cap b

\* lines 106-117: the loop from entry k on, with prevResult so far
RECURSIVE CombineLoop(_, _, _, _)
CombineLoop(m, prevResult, addedValues, k) ==
    IF k > Len(addedValues)
    THEN [method |-> m, prevResult |-> prevResult]
    ELSE IF prevResult # NoValue
    THEN LET prev == prevResult[1]
             newFlags == intersect_flags(prev.second, addedValues[k].second)
             newResult == NewLocal(m, prev.first.type, "")
             m1 == emplace(addNewLocal(m, prev.first.type, ""), "add", newResult,
                           << prev.first, addedValues[k].first >>, newFlags)
         IN  CombineLoop(m1, Some(Part(newResult, newFlags)), addedValues, k + 1)
    ELSE CombineLoop(m, Some(addedValues[k]), addedValues, k + 1)

\* lines 99-119: every entry is erased as it is visited
combineAdditions(m, addedValues) ==
    IF addedValues = << >>
    THEN [method |-> m, prevResult |-> NoValue, addedValues |-> << >>]
    ELSE [method |-> CombineLoop(m, NoValue, addedValues, 1).method,
          prevResult |-> CombineLoop(m, NoValue, addedValues, 1).prevResult,
          addedValues |-> << >>]

\* the result of the call and the range afterwards
RangeResult(error, m, out, rng) ==
    [error |-> error, method |-> m, dest |-> out,
     writeIsNegative |-> UNDEFINED_VALUE, range |-> rng]

\* lines 121-133
insertAddressToWorkItemSpecificOffset(m, out, rng) ==
    IF rng.constantOffset # NoValue
    THEN {RangeResult("Unimplemented", m, out, rng)}
    ELSE LET c == combineAdditions(m, rng.dynamicAddressParts)
             dynamicParts == c.prevResult[1]
             after == [rng EXCEPT !.dynamicAddressParts = c.addedValues]
             shifted == NewLocal(c.method, dynamicParts.first.type, "")
         IN  IF rng.typeSizeShift # NoValue
             THEN {RangeResult("none",
                       emplace(addNewLocal(c.method, dynamicParts.first.type, ""),
                               "shl", shifted,
                               << dynamicParts.first, rng.typeSizeShift[1].args[2] >>,
                               dynamicParts.second),
                       shifted, after)}
             ELSE {RangeResult("none", c.method, dynamicParts.first, after)}

\* the ranges the analysis hands over: one to MaxParts dynamic parts in any
\* order, each with some decorations, with or without a constant offset
\* and a shift by the type size
MaxParts == 3

PartValue(k) == LocalValue(<< "part", k >>, TYPE_INT32)

PartDecorations ==
    {{"UNSIGNED_RESULT"}, {"WORK_GROUP_UNIFORM_VALUE"},
     {"UNSIGNED_RESULT", "WORK_GROUP_UNIFORM_VALUE"}}

Injective(s) == \A i, j \in DOMAIN s : s[i] = s[j] => i = j

DynamicAddressParts ==
    UNION {{[k \in 1..n |-> Part(PartValue(order[k]), flags[k])] :
               order \in {s \in [1..n -> 1..MaxParts] : Injective(s)},
               flags \in [1..n -> PartDecorations]} :
           n \in 1..MaxParts}

TypeSizeShift == Instruction("shl", LocalOffset, << LocalOther, Val(0, 0, 0, 2) >>, {})

Ranges ==
    [constantOffset : {NoValue, Some(INT_ZERO), Some(Val(0, 0, 0, 16))},
     dynamicAddressParts : DynamicAddressParts,
     typeSizeShift : {NoValue, Some(TypeSizeShift)}]

\* the method holds an instruction or none, the walker at it or at the end
InitWorkItem ==
    /\ InitDriver(Configurations({"NONE"}, {}, {0}), {SingleKernel})
    /\ instructions \in BlocksOf({Instruction("mov", LocalOther, << LocalOffset >>, {})}, 1)
    /\ locals = LocalsOf({LocalOther, LocalOffset} \cup {PartValue(k) : k \in 1..MaxParts})
    /\ calls = << >>
    /\ registers = << >>
    /\ it \in 1..(Len(instructions) + 1)
    /\ range \in Ranges
    /\ analysis = NoAnalysis
    /\ walk = NoWalk

\* the caller lowers the range it holds; a range has a dynamic part until
\* it was lowered
CallWorkItemSpecificOffset ==
    /\ MayCall
    /\ range.dynamicAddressParts # << >>
    /\ \E r \in insertAddressToWorkItemSpecificOffset(Method, UNDEFINED_VALUE, range) :
          /\ ReturnMethod("insertAddressToWorkItemSpecificOffset",
                          [method |-> Method, range |-> range,
                           dest |-> UNDEFINED_VALUE], r)
          /\ range' = r.range

NextWorkItem == CallWorkItemSpecificOffset

SpecWorkItem == InitWorkItem /\ [][NextWorkItem]_vars

WorkItemCall(i) ==
    i \in DOMAIN calls /\ calls[i].fn = "insertAddressToWorkItemSpecificOffset"

\* C21: the call fails with Unimplemented exactly when the constant offset is
\* present and not zero; with no constant offset or a constant offset of
\* zero it returns and gives the combined dynamic offset
C21_ConstantOffset ==
    \A i \in DOMAIN calls :
        WorkItemCall(i) =>
            LET constantOffset == calls[i].args.range.constantOffset
                nonZero == constantOffset # NoValue
                           /\ ~isZeroInitializer(constantOffset[1])
            IN  /\ calls[i].error = (IF nonZero THEN "Unimplemented" ELSE "none")
                /\ ~nonZero => checkLocal(calls[i].dest)


\* the decorations that each of the first k parts has
CommonDecorations(parts, k) ==
    {d \in UNION PartDecorations : \A j \in 1..k : d \in parts[j].second}

\* the instructions call c put in front of the walker, when it is the last call
EmittedBy(c) == SubSeq(instructions, c.args.method.it, it - 1)

\* C29: for a range with n >= 1 dynamic parts and no constant offset the call
\* emits n - 1 additions that fold the parts from the left, the k-th with
\* the decorations common to the first k + 1 parts, then a shift left with
\* the decorations common to all parts if typeSizeShift is present; the
\* last of them gives the result, and the map of dynamic parts is empty
C29_LeftFold ==
    LET i == Len(calls)
    IN  (WorkItemCall(i) /\ calls[i].args.range.constantOffset = NoValue) =>
            LET c == calls[i]
                m == c.args.method
                parts == c.args.range.dynamicAddressParts
                n == Len(parts)
                shift == c.args.range.typeSizeShift
                new == EmittedBy(c)
                sum == IF n = 1 THEN parts[1].first ELSE new[n - 1].out
            IN  /\ c.error = "none"
                /\ Emitted(c) = n - 1 + Len(shift)
                /\ Len(new) = Emitted(c)
                /\ instructions = SubSeq(m.instructions, 1, m.it - 1) \o new
                                  \o SubSeq(m.instructions, m.it, Len(m.instructions))
                /\ \A k \in 1..(n - 1) :
                      /\ new[k].op = "add"
                      /\ new[k].args =
                            << IF k = 1 THEN parts[1].first ELSE new[k - 1].out,
                               parts[k + 1].first >>
                      /\ new[k].decorations = CommonDecorations(parts, k + 1)
                      /\ new[k].out.name \notin c.localsBefore
                /\ IF shift = NoValue THEN c.dest = sum
                   ELSE /\ new[n].op = "shl"
                        /\ new[n].args = << sum, shift[1].args[2] >>
                        /\ new[n].decorations = CommonDecorations(parts, n)
                        /\ c.dest = new[n].out
                /\ range.dynamicAddressParts = << >>

\* three parts were folded and shifted: the parts have no decoration in
\* common, though the first two have
C29_Witness ==
    /\ WorkItemCall(1)
    /\ calls[1].error = "none"
    /\ Len(calls[1].args.range.dynamicAddressParts) = 3
    /\ calls[1].args.range.typeSizeShift # NoValue
    /\ Emitted(calls[1]) = 3
    /\ CommonDecorations(calls[1].args.range.dynamicAddressParts, 2) # {}
    /\ CommonDecorations(calls[1].args.range.dynamicAddressParts, 3) = {}
    /\ instructions[it - 1].op = "shl"
    /\ instructions[it - 1].decorations = {}
    /\ range.dynamicAddressParts = << >>


(***************************************************************************)
(* insertMakePositive in a method that has instructions already            *)
(***************************************************************************)
\* the instructions that write the sources, with and without the decoration
FrameInstructions ==
    {Instruction("and", ParamX, << LocalN, Val(0, 0, 0, 255) >>, {"UNSIGNED_RESULT"}),
     Instruction("add", ParamX, << LocalN, LocalN >>, {}),
     Instruction("shr", ParamH, << LocalN, Val(0, 0, 0, 16) >>, {"UNSIGNED_RESULT"}),
     Instruction("mov", LocalN, << Val(0, 0, 0, 1) >>, {})}

InitFrame ==
    InitBlock({ParamX, ParamH, LocalD, LocalN}, BlocksOf(FrameInstructions, MaxBlock))

\* a local is made positive, into locals of the caller or into new ones
FrameArguments ==
    {<< src, UNDEFINED_VALUE, UNDEFINED_VALUE >> : src \in {ParamX, ParamH, LocalD}}
    \cup {<< ParamX, LocalD, LocalN >>}

CallMakePositiveAtWalker ==
    /\ MayCall
    /\ \E in \in FrameArguments :
          \E r \in insertMakePositive(Method, in[1], in[2], in[3]) :
              Return("insertMakePositive",
                     [src |-> in[1], dest |-> in[2], writeIsNegative |-> in[3]], r)

NextFrame == CallMakePositiveAtWalker

SpecFrame == InitFrame /\ [][NextFrame]_vars

\* src has one writer among the instructions, and that has UNSIGNED_RESULT
UnsignedWriter(block, src) ==
    /\ Cardinality({k \in DOMAIN block : block[k].out = src}) = 1
    /\ \A k \in DOMAIN block :
          block[k].out = src => "UNSIGNED_RESULT" \in block[k].decorations

\* C30: for a local src whose single writer has UNSIGNED_RESULT,
\* insertMakePositive emits nothing and gives dest = src, isNegative = 0;
\* for any other local src it puts, right in front of the instruction the
\* walker is at and in this order, the sign extension (only for a src of
\* fewer than 32 bits), sign = asr(src, 31), tmp = src xor sign and
\* dest = tmp - sign with UNSIGNED_RESULT (on the extended src where there
\* is one); the walker is at the same instruction afterwards and the
\* instructions before and after are unchanged
C30_FrameEffect ==
    LET i == Len(calls)
    IN  (i > 0 /\ calls[i].fn = "insertMakePositive" /\ checkLocal(calls[i].args.src)) =>
            LET c == calls[i]
                src == c.args.src
                narrow == src.type.bits < 32
                new == SubSeq(instructions, c.walker, it - 1)
                n == Len(new)
                srcInt == IF narrow THEN new[1].out ELSE src
            IN  /\ c.error = "none"
                /\ instructions = SubSeq(c.block, 1, c.walker - 1) \o new
                                  \o SubSeq(c.block, c.walker, Len(c.block))
                /\ it = c.walker + n
                /\ IF UnsignedWriter(c.block, src)
                   THEN n = 0 /\ c.dest = src /\ c.writeIsNegative = INT_ZERO
                   ELSE /\ n = (IF narrow THEN 4 ELSE 3)
                        /\ narrow => new[1].op = "sext" /\ new[1].args[1] = src
                        /\ new[n - 2].op = "asr"
                        /\ new[n - 2].args =
                              << srcInt, LiteralValue(FromNat(31), TYPE_INT8) >>
                        /\ new[n - 2].out = c.writeIsNegative
                        /\ new[n - 1].op = "xor"
                        /\ new[n - 1].args = << srcInt, c.writeIsNegative >>
                        /\ new[n].op = "sub"
                        /\ new[n].args = << new[n - 1].out, c.writeIsNegative >>
                        /\ new[n].out = c.dest
                        /\ new[n].decorations = {"UNSIGNED_RESULT"}
                        /\ \A k \in 1..(n - 1) : new[k].decorations = {}

\* the sequence with the sign extension was put between two instructions
\* of the method, and nothing was emitted for a source known to be unsigned
C30_Witness ==
    /\ Len(calls) = 2
    /\ calls[1].args.src = ParamH
    /\ calls[1].walker = 2
    /\ Len(calls[1].block) = 2
    /\ calls[1].last - calls[1].first = 4
    /\ calls[2].args.src = ParamX
    /\ UnsignedWriter(calls[2].block, ParamX)
    /\ calls[2].dest = ParamX
    /\ calls[2].last = calls[2].first
    /\ it = 6
    /\ instructions[6] = calls[1].block[2]


(***************************************************************************)
(* analysis/Analysis.h: LocalAnalysis                                      *)
(*                                                                         *)
(* The instructions of a block are told apart by their addresses, here     *)
(* numbers; a block is a sequence of different instructions and is not     *)
(* empty, since it starts with its label.  A pointer into the result store *)
(* is the key of the entry it points at.                                   *)
(***************************************************************************)
MaxInstructions == 3

NumValues == 3

InstructionIds == 1..MaxInstructions

Values == 0..(NumValues - 1)

BasicBlocks ==
    UNION {{b \in [1..n -> InstructionIds] : Injective(b)} : n \in 1..MaxInstructions}

\* the transfer functions the analyses are tried with: the value counts the
\* instructions, weighs them, depends on the instruction only, or is passed on
TransferFunctions ==
    {[p \in InstructionIds \X Values |-> (p[2] + 1) % NumValues],
     [p \in InstructionIds \X Values |-> (2 * p[2] + p[1]) % NumValues],
     [p \in InstructionIds \X Values |-> p[1] % NumValues],
     [p \in InstructionIds \X Values |-> p[2]]}

\* std::unordered_map::emplace: an entry that exists is kept
MapEmplace(map, key, value) ==
    IF key \in DOMAIN map THEN map ELSE (key :> value) @@ map

\* lines 93-94 and 106-107 for the instructions order[k], order[k + 1], ...:
\* the transfer function is invoked on the instruction and on what prevVal
\* points at, the result is stored, and prevVal points at the stored entry
RECURSIVE Traverse(_, _, _, _)
Traverse(a, order, k, prevVal) ==
    IF k > Len(order)
    THEN a
    ELSE LET instr == order[k]
             value == a.transferFunction[<< instr, prevVal >>]
             results == MapEmplace(a.results, instr, value)
         IN  Traverse([a EXCEPT !.results = results,
                                !.invoked = Append(@, << instr, prevVal >>)],
                      order, k + 1, results[instr])

Reverse(s) == [k \in 1..Len(s) |-> s[Len(s) + 1 - k]]

\* lines 88-96
analyzeForward(a, block) == Traverse(a, block, 1, a.initialValue)

\* a mutant: the block is walked from its start in the backward analysis too
analyzeBackwardFromStart(a, block) == Traverse(a, block, 1, a.initialValue)

\* lines 98-109
analyzeBackward(a, block) == Traverse(a, Reverse(block), 1, a.initialValue)

\* a mutant: the start is where the analysis starts, the end where it ends
CallOperatorByDirection(a, block) ==
    LET done == IF a.Direction = "FORWARD"
                THEN analyzeForward(a, block) ELSE analyzeBackward(a, block)
    IN  [done EXCEPT
            !.resultAtStart =
                IF a.Direction = "FORWARD" THEN block[1] ELSE block[Len(block)],
            !.resultAtEnd =
                IF a.Direction = "FORWARD" THEN block[Len(block)] ELSE block[1]]

\* lines 48-57: operator()
CallOperator(a, block) ==
    LET done == IF a.Direction = "FORWARD"
                THEN analyzeForward(a, block) ELSE analyzeBackward(a, block)
    IN  [done EXCEPT !.resultAtStart = block[1],
                     !.resultAtEnd = block[Len(block)]]

\* lines 59-72
getResult(a, instr) == a.results[instr]

getStartResult(a) == a.results[a.resultAtStart]

getEndResult(a) == a.results[a.resultAtEnd]

\* lines 75-85: the instance after its constructor, with the block it is
\* going to be given; invoked lists the invocations of the transfer function
LocalAnalysis(D, transferFunction, initialValue, block) ==
    [Direction |-> D, transferFunction |-> transferFunction,
     initialValue |-> initialValue, results |-> << >>,
     resultAtStart |-> nullptr, resultAtEnd |-> nullptr,
     block |-> block, invoked |-> << >>, analysed |-> FALSE]

InitAnalysis ==
    /\ InitDriver(Configurations({"NONE"}, {}, {0}), {SingleKernel})
    /\ instructions = << >>
    /\ locals = << >>
    /\ calls = << >>
    /\ registers = << >>
    /\ it = 1
    /\ range = NoRange
    /\ analysis \in {LocalAnalysis(D, t, v, b) :
                        D \in {"FORWARD", "BACKWARD"}, t \in TransferFunctions,
                        v \in Values, b \in BasicBlocks}
    /\ walk = NoWalk

\* the instance analyses its one block
Analyze ==
    /\ analysis # NoAnalysis
    /\ ~analysis.analysed
    /\ analysis' = [CallOperator(analysis, analysis.block) EXCEPT !.analysed = TRUE]
    /\ UNCHANGED << driverVars, helperVars, walk >>

NextAnalysis == Analyze

SpecAnalysis == InitAnalysis /\ [][NextAnalysis]_vars


\* the first and the last instruction of the analysed block, and the order
\* in which the analysis walks the block
FirstInstruction == analysis.block[1]

LastInstruction == analysis.block[Len(analysis.block)]

Traversal ==
    IF analysis.Direction = "FORWARD" THEN analysis.block ELSE Reverse(analysis.block)

Analysed == analysis # NoAnalysis /\ analysis.analysed

\* C22 as claimed: after the analysis getStartResult is the value recorded
\* for the first instruction of the block in a forward analysis and for the
\* last in a backward one, and getEndResult the other way round
C22_StartEndByDirection ==
    Analysed =>
        /\ getStartResult(analysis) =
              getResult(analysis, IF analysis.Direction = "FORWARD"
                                  THEN FirstInstruction ELSE LastInstruction)
        /\ getEndResult(analysis) =
              getResult(analysis, IF analysis.Direction = "FORWARD"
                                  THEN LastInstruction ELSE FirstInstruction)

\* C22 amended: after the analysis getStartResult is the value recorded for
\* the first instruction of the block and getEndResult the value recorded
\* for the last, in either direction; in a backward analysis that makes
\* getStartResult the value the walk ends with and getEndResult
\* f(last, initial)
C22_StartEndByPosition ==
    Analysed =>
        /\ getStartResult(analysis) = getResult(analysis, FirstInstruction)
        /\ getEndResult(analysis) = getResult(analysis, LastInstruction)
        /\ analysis.Direction = "BACKWARD" =>
              /\ getEndResult(analysis) =
                    analysis.transferFunction[<< LastInstruction, analysis.initialValue >>]
              /\ getStartResult(analysis) =
                    getResult(analysis, Traversal[Len(Traversal)])
        /\ analysis.Direction = "FORWARD" =>
              /\ getStartResult(analysis) =
                    analysis.transferFunction[<< FirstInstruction, analysis.initialValue >>]
              /\ getEndResult(analysis) =
                    getResult(analysis, Traversal[Len(Traversal)])

\* a backward analysis of three instructions whose first and last results differ
C22_Witness ==
    /\ Analysed
    /\ analysis.Direction = "BACKWARD"
    /\ Len(analysis.block) = 3
    /\ getStartResult(analysis) # getEndResult(analysis)
    /\ getStartResult(analysis) = getResult(analysis, FirstInstruction)
    /\ getResult(analysis, FirstInstruction) # getResult(analysis, LastInstruction)

\* C26: after the analysis the store holds one value for each instruction
\* of the block and for nothing else; the value of the first instruction
\* walked is f of it and the initial value, the value of every other one is
\* f of it and the value of the instruction walked before it (its
\* predecessor in a forward, its successor in a backward analysis); f was
\* invoked once for each instruction, in the order of the walk
C26_ChainRecurrence ==
    Analysed =>
        LET transfer == analysis.transferFunction
            before(k) == IF k = 1 THEN analysis.initialValue
                         ELSE analysis.results[Traversal[k - 1]]
        IN  /\ DOMAIN analysis.results = {analysis.block[k] : k \in DOMAIN analysis.block}
            /\ \A k \in DOMAIN Traversal :
                  analysis.results[Traversal[k]] = transfer[<< Traversal[k], before(k) >>]
            /\ analysis.invoked = [k \in DOMAIN Traversal |-> << Traversal[k], before(k) >>]

\* a backward analysis of three instructions whose values all differ
C26_Witness ==
    /\ Analysed
    /\ analysis.Direction = "BACKWARD"
    /\ Len(analysis.block) = 3
    /\ Len(analysis.invoked) = 3
    /\ analysis.invoked[1][1] = LastInstruction
    /\ analysis.invoked[3][1] = FirstInstruction
    /\ Cardinality({analysis.results[i] : i \in DOMAIN analysis.results}) = 3


(***************************************************************************)
(* optimization/Optimizer.cpp: runSingleSteps                              *)
(*                                                                         *)
(* The method is the sequence of its instructions, each a node of a linked *)
(* list with a number of its own, so that a walker is the number of the    *)
(* node it is at: it stays at its node when others are inserted or erased, *)
(* and it dangles when its own node is erased.  A step leaves the          *)
(* instruction at its walker alone, replaces it in place, erases it or     *)
(* inserts an instruction in front of it.                                  *)
(***************************************************************************)
MaxMethod == 3

NumSteps == 2

MaxChanges == 2

\* the walker at the end of the method, and what lies before the first
\* instruction
END_OF_METHOD == 0

BEFORE_METHOD == -1

Nodes(method) == {method[k] : k \in DOMAIN method}

IndexOf(method, node) == CHOOSE k \in DOMAIN method : method[k] = node

\* InstructionWalker::copy().previousInMethod() and nextInMethod()
previousInMethod(method, walker) ==
    IF walker = END_OF_METHOD
    THEN IF method = << >> THEN BEFORE_METHOD ELSE method[Len(method)]
    ELSE IF IndexOf(method, walker) = 1 THEN BEFORE_METHOD
    ELSE method[IndexOf(method, walker) - 1]

nextInMethod(method, walker) ==
    IF IndexOf(method, walker) = Len(method) THEN END_OF_METHOD
    ELSE method[IndexOf(method, walker) + 1]

Without(method, node) ==
    SubSeq(method, 1, IndexOf(method, node) - 1)
    \o SubSeq(method, IndexOf(method, node) + 1, Len(method))

\* what a step may do at the walker it is given: the method afterwards and
\* the walker it returns
StepOutcome(kind, method, newIt) == [kind |-> kind, method |-> method, newIt |-> newIt]

\* the first instruction of a method is the label of its first block, which
\* no step changes
StepOutcomes(w) ==
    {StepOutcome("unchanged", w.method, w.it)}
    \cup (IF w.changes < MaxChanges /\ w.it # w.method[1]
          THEN {StepOutcome("insert",
                            InsertAt(w.method, IndexOf(w.method, w.it), w.fresh), w.it),
                StepOutcome("replace", w.method, w.it),
                StepOutcome("erase", Without(w.method, w.it),
                            nextInMethod(w.method, w.it))}
          ELSE {})

\* lines 76-79: the walker at the first instruction, prevIt a copy of it
Walk(method) ==
    [method |-> method, it |-> method[1], prevIt |-> method[1], step |-> 1,
     pc |-> "for", fresh |-> Len(method) + 1, changes |-> 0, log |-> << >>]

InitWalk ==
    /\ InitDriver(Configurations({"NONE"}, {}, {0}), {SingleKernel})
    /\ instructions = << >>
    /\ locals = << >>
    /\ calls = << >>
    /\ registers = << >>
    /\ it = 1
    /\ range = NoRange
    /\ analysis = NoAnalysis
    /\ walk \in {Walk([k \in 1..n |-> k]) : n \in 1..MaxMethod}

Walking == walk # NoWalk /\ walk.pc = "for"

\* line 87: newIt.copy().previousInMethod() != prevIt || newIt != it
Trigger(method, newIt, w) ==
    previousInMethod(method, newIt) # w.prevIt \/ newIt # w.it

\* lines 82-90: one step of the list is run at the walker
RunStep ==
    /\ Walking
    /\ walk.step <= NumSteps
    /\ walk.it \in Nodes(walk.method)
    /\ \E o \in StepOutcomes(walk) :
          LET reset == Trigger(o.method, o.newIt, walk)
          IN  walk' = [walk EXCEPT
                  !.method = o.method,
                  !.it = IF reset THEN walk.prevIt ELSE @,
                  !.step = @ + 1,
                  !.fresh = IF o.kind = "insert" THEN @ + 1 ELSE @,
                  !.changes = IF o.kind = "unchanged" THEN @ ELSE @ + 1,
                  !.log = Append(@, [step |-> walk.step, at |-> walk.it,
                                     kind |-> o.kind, reset |-> reset,
                                     prevIt |-> walk.prevIt,
                                     after |-> IF reset THEN walk.prevIt ELSE walk.it,
                                     method |-> o.method])]
    /\ UNCHANGED << driverVars, helperVars, analysis >>

\* lines 91-92 and 80: the walker moves on, prevIt follows, and the loop
\* is left at the end of the method
Advance ==
    /\ Walking
    /\ walk.step = NumSteps + 1
    /\ walk.it \in Nodes(walk.method)
    /\ LET next == nextInMethod(walk.method, walk.it)
       IN  walk' = [walk EXCEPT
               !.it = next,
               !.prevIt = previousInMethod(walk.method, next),
               !.step = 1,
               !.pc = IF next = END_OF_METHOD THEN "done" ELSE "for",
               !.log = Append(@, [step |-> 0, at |-> walk.it, kind |-> "advance",
                                  reset |-> FALSE, prevIt |-> walk.prevIt,
                                  after |-> next, method |-> walk.method])]
    /\ UNCHANGED << driverVars, helperVars, analysis >>

\* the walker is at a node that was erased: what running a step at it or
\* moving it on does is undefined; the program stops, or it goes on from
\* any instruction or from the end of the method
UseDanglingWalker ==
    /\ Walking
    /\ walk.it \notin Nodes(walk.method)
    /\ \/ walk' = [walk EXCEPT !.pc = "crashed"]
       \/ \E node \in Nodes(walk.method) \cup {END_OF_METHOD} :
             walk' = [walk EXCEPT
                 !.it = node,
                 !.prevIt = previousInMethod(walk.method, node),
                 !.step = 1,
                 !.pc = IF node = END_OF_METHOD THEN "done" ELSE "for"]
    /\ UNCHANGED << driverVars, helperVars, analysis >>

NextWalk ==
    \/ RunStep
    \/ Advance
    \/ UseDanglingWalker

SpecWalk == InitWalk /\ [][NextWalk]_vars


\* reading the log of the walk: entry t is the walker moving on
Advanced(t) == t \in DOMAIN walk.log /\ walk.log[t].kind = "advance"

\* the last move before entry t, 0 if there is none
LastAdvanceBefore(t) ==
    IF \E s \in 1..(t - 1) : Advanced(s)
    THEN CHOOSE s \in 1..(t - 1) : Advanced(s) /\ \A u \in (s + 1)..(t - 1) : ~Advanced(u)
    ELSE 0

\* the instruction the walker was moved to before entry t
SweptBefore(t) ==
    IF LastAdvanceBefore(t) = 0 THEN 1 ELSE walk.log[LastAdvanceBefore(t)].after

\* a step gave back another cursor, or one whose predecessor is not prevIt:
\* the walker is then at prevIt, an instruction of the method
ResetToPrev ==
    \A k \in DOMAIN walk.log :
        walk.log[k].reset =>
            /\ walk.log[k].after = walk.log[k].prevIt
            /\ walk.log[k].prevIt \in Nodes(walk.log[k].method)

\* the steps run on an instruction start with the first step of the list,
\* and the walker moves on from an instruction it was moved to only after
\* the whole list was run on it in order without a reset; after a reset it
\* moves on from prevIt, to the instruction that follows prevIt now
ReplayBeforeAdvance ==
    \A t \in DOMAIN walk.log :
        Advanced(t) =>
            LET s == LastAdvanceBefore(t)
                swept == SweptBefore(t)
                resets == {k \in (s + 1)..(t - 1) : walk.log[k].reset}
            IN  /\ t - s - 1 = NumSteps
                /\ walk.log[s + 1].step = 1 /\ walk.log[s + 1].at = swept
                /\ IF resets = {}
                   THEN /\ walk.log[t].at = swept
                        /\ \A j \in 1..NumSteps :
                              /\ walk.log[s + j].step = j
                              /\ walk.log[s + j].at = swept
                   ELSE /\ walk.log[t].at = walk.log[t].prevIt
                        /\ walk.log[t].after =
                              nextInMethod(walk.log[t].method, walk.log[t].prevIt)

\* when no step changed anything the walk is over at the end of the method
\* and every step was run once on every instruction, instruction by
\* instruction and in the order of the list
VisitedOnceInOrder ==
    (walk.pc = "done" /\ walk.changes = 0) =>
        LET apps == SelectSeq(walk.log, LAMBDA e : e.kind # "advance")
        IN  /\ walk.it = END_OF_METHOD
            /\ Len(apps) = NumSteps * Len(walk.method)
            /\ \A k \in DOMAIN apps :
                  /\ apps[k].at = walk.method[((k - 1) \div NumSteps) + 1]
                  /\ apps[k].step = ((k - 1) % NumSteps) + 1

\* C27: when a step of the single-steps driver returns a cursor that is not
\* its input cursor, or one whose predecessor is not prev any more, the
\* driver resets the cursor to prev, and the whole list of steps, from the
\* first one on, is run on the instruction that then follows prev before
\* the driver moves past it; when no step changes anything every
\* instruction is visited once in method order with all steps in list
\* order, and the walk ends at the end of the method
C27_ResetAndReplay ==
    walk # NoWalk => ResetToPrev /\ ReplayBeforeAdvance /\ VisitedOnceInOrder


(***************************************************************************)
(* The vectors of level FULL                                               *)
(***************************************************************************)
\* the parameter names of the passes a vector lists
NamesIn(vector) == {ALL_PASSES[vector[i]].parameterName : i \in DOMAIN vector}

\* the vector the constructor fills for passes of one OptimizationType
VectorOf(type) ==
    CASE type = "INITIAL" -> initialPasses
      [] type = "REPEAT" -> repeatingPasses
      [] type = "FINAL" -> finalPasses

\* level FULL with nothing enabled or disabled on top of it
PlainFull ==
    /\ config.optimizationLevel = "FULL"
    /\ config.additionalEnabledOptimizations = {}
    /\ config.additionalDisabledOptimizations = {}

(***************************************************************************)
(* C23: an Optimizer constructed with level FULL and empty additional      *)
(* enabled and disabled sets schedules every pass of ALL_PASSES except     *)
(* compress-work-group-info: the 21 other parameter names are all present, *)
(* each in the vector of its own phase, and compress-work-group-info is in *)
(* no vector.                                                              *)
(***************************************************************************)
C23_FullSchedulesAllButCompress ==
    (main # "new" /\ PlainFull) =>
       /\ \A p \in Passes :
             ALL_PASSES[p].parameterName # "compress-work-group-info"
                => ALL_PASSES[p].parameterName \in NamesIn(VectorOf(ALL_PASSES[p].type))
       /\ "compress-work-group-info"
             \notin NamesIn(initialPasses) \cup NamesIn(repeatingPasses)
                       \cup NamesIn(finalPasses)
       /\ Cardinality(NamesIn(initialPasses) \cup NamesIn(repeatingPasses)
                         \cup NamesIn(finalPasses)) = 21
       /\ Len(initialPasses) + Len(repeatingPasses) + Len(finalPasses) = 21

\* a constructed Optimizer of plain level FULL with passes in all three vectors
C23_Witness ==
    /\ main = "constructed"
    /\ PlainFull
    /\ Len(initialPasses) = 6
    /\ Len(repeatingPasses) = 8
    /\ Len(finalPasses) = 7


(***************************************************************************)
(* The initial and the final phase of runOptimizationPasses                *)
(***************************************************************************)
\* no invocation on m signalled an error
NoError(m) == \A i \in DOMAIN trace[m] : trace[m][i].result # "throw"

\* positions in the record of m of the invocations made by the loop "during"
PositionsDuring(m, during) == {i \in DOMAIN trace[m] : trace[m][i].during = during}

\* how the repeat loop of task t ended
EndedByEarlyExit(t) == LoopOver(t) /\ earlyExit[t]

EndedByCap(t) ==
    LoopOver(t) /\ ~earlyExit[t] /\ sweeps[t] > 0 /\ iterationsLeft[t] = 0

RanZeroIterations(t) == LoopOver(t) /\ sweeps[t] = 0

(***************************************************************************)
(* C24: in a run of the driver in which no pass signals an error, the run  *)
(* does not end in an error, the initial passes are invoked exactly once   *)
(* each in the order of initialPasses before the repeat loop is entered,   *)
(* no final pass is invoked before the repeat loop is over, and when the   *)
(* driver returns the final passes have been invoked exactly once each in  *)
(* the order of finalPasses, after every invocation of the repeat loop,    *)
(* whether the loop ended by the early exit, by the iteration cap or       *)
(* without an iteration.                                                   *)
(***************************************************************************)
C24_InitialAndFinalOnce ==
    \A t \in Tasks :
       NoError(tasks[t]) =>
          /\ pc[t] # "error"
          /\ pc[t] \in {"loop", "repeat", "afterloop", "final", "done"}
                => InvokedDuring(tasks[t], "initial") = initialPasses
          /\ pc[t] \in {"pending", "initial", "loop", "repeat", "afterloop"}
                => InvokedDuring(tasks[t], "final") = << >>
          /\ pc[t] = "done"
                => /\ InvokedDuring(tasks[t], "final") = finalPasses
                   /\ EndedByEarlyExit(t) \/ EndedByCap(t) \/ RanZeroIterations(t)
          /\ \A i \in PositionsDuring(tasks[t], "final") :
                \A j \in PositionsDuring(tasks[t], "repeat")
                         \cup PositionsDuring(tasks[t], "initial") : j < i

\* a run that returned without an error after the iteration cap stopped the
\* repeat loop, with several initial and several final passes
C24_Witness ==
    \E t \in Tasks :
       /\ pc[t] = "done"
       /\ NoError(tasks[t])
       /\ EndedByCap(t)
       /\ sweeps[t] = cap
       /\ Len(initialPasses) >= 2
       /\ Len(finalPasses) >= 2
       /\ InvokedDuring(tasks[t], "final") = finalPasses

\* a run that returned after the early exit stopped the repeat loop
C24_WitnessEarlyExit ==
    \E t \in Tasks :
       /\ pc[t] = "done"
       /\ NoError(tasks[t])
       /\ EndedByEarlyExit(t)
       /\ Len(finalPasses) >= 2

\* a run that returned without an iteration of the repeat loop
C24_WitnessZeroIterations ==
    \E t \in Tasks :
       /\ pc[t] = "done"
       /\ NoError(tasks[t])
       /\ RanZeroIterations(t)
       /\ Len(finalPasses) >= 2


(***************************************************************************)
(* The early exit of the repeat loop                                       *)
(***************************************************************************)
\* the position in the record of m of the last invocation of pass p
LastInvocationOf(m, p) ==
    CHOOSE i \in InvocationsOf(m, p) : \A j \in InvocationsOf(m, p) : j <= i

\* positions of the invocations the repeat loop made on m after position k
RepeatInvocationsAfter(m, k) ==
    {i \in PositionsDuring(m, "repeat") : i > k}

(***************************************************************************)
(* C25: whenever the repeat loop of a task has ended by the early exit, at *)
(* a pass P equal to lastChangingOptimization, P has been invoked, its     *)
(* last invocation returned true, no invocation of the repeat loop after   *)
(* it returned true, P was not invoked again, and every other pass of      *)
(* repeatingPasses was invoked at least once after it, each time with the  *)
(* result false.                                                           *)
(***************************************************************************)
C25_EarlyExitAfterQuietSweep ==
    \A t \in Tasks :
       earlyExit[t] =>
          LET m == tasks[t]
              P == lastChangingOptimization[t]
          IN  /\ P \in RepeatSet
              /\ pc[t] \in {"loop", "afterloop"} => repeatingPasses[pos[t]] = P
              /\ InvocationsOf(m, P) # {}
              /\ trace[m][LastInvocationOf(m, P)].result = "true"
              /\ \A i \in RepeatInvocationsAfter(m, LastInvocationOf(m, P)) :
                    /\ trace[m][i].result = "false"
                    /\ trace[m][i].pass # P
              /\ \A q \in RepeatSet \ {P} :
                    \E i \in RepeatInvocationsAfter(m, LastInvocationOf(m, P)) :
                       trace[m][i].pass = q

\* an early exit at the second of three repeat passes, in the third sweep or
\* later: the passes invoked since its last invocation lie in two sweeps
C25_Witness ==
    \E t \in Tasks :
       /\ earlyExit[t]
       /\ pc[t] = "afterloop"
       /\ Len(repeatingPasses) = 3
       /\ pos[t] = 2
       /\ sweeps[t] >= 3
       /\ Cardinality(RepeatInvocationsAfter(tasks[t],
             LastInvocationOf(tasks[t], lastChangingOptimization[t]))) = 2


(***************************************************************************)
(* The repeat loop with single-steps enabled                               *)
(***************************************************************************)
\* the catalog entry of runSingleSteps
SingleSteps == CHOOSE p \in Passes : ALL_PASSES[p].parameterName = "single-steps"

\* single-steps is enabled: it is the first pass of repeatingPasses
SingleStepsEnabled ==
    /\ repeatingPasses # << >>
    /\ repeatingPasses[1] = SingleSteps

\* sweep k on m ran every repeat pass to its return, and none but
\* single-steps returned true
QuietSweep(m, k) ==
    /\ InvokedInSweep(m, k) = repeatingPasses
    /\ \A i \in PositionsDuring(m, "repeat") :
          trace[m][i].sweep = k
             => trace[m][i].result =
                   IF trace[m][i].pass = SingleSteps THEN "true" ELSE "false"

(***************************************************************************)
(* C31: with single-steps enabled, which returns true on every invocation, *)
(* a sweep in which no repeat pass other than single-steps returns true is *)
(* the last sweep that invokes a pass: no sweep beyond the following one   *)
(* begins, the following sweep invokes nothing and stands at single-steps  *)
(* with lastChangingOptimization equal to it, so that only the early exit  *)
(* can be taken, and once the loop is over while the cap allowed the       *)
(* following sweep to begin, the loop has ended by the early exit in that  *)
(* sweep, with single-steps invoked once per earlier sweep.                *)
(***************************************************************************)
C31_SingleStepsEarlyExit ==
    \A t \in Tasks :
       SingleStepsEnabled =>
          \A k \in 1..sweeps[t] :
             QuietSweep(tasks[t], k) =>
                /\ sweeps[t] <= k + 1
                /\ AlwaysTrue(tasks[t], SingleSteps)
                /\ sweeps[t] = k + 1 =>
                      /\ InvokedInSweep(tasks[t], k + 1) = << >>
                      /\ pc[t] = "repeat" =>
                            /\ pos[t] = 1
                            /\ IsLastChanging(lastChangingOptimization[t], SingleSteps)
                /\ (LoopOver(t) /\ k < cap) =>
                      /\ earlyExit[t]
                      /\ sweeps[t] = k + 1
                      /\ Count(tasks[t], SingleSteps) = k

\* a loop over three repeat passes that ended by the early exit at
\* single-steps, after a sweep in which another pass returned true and a
\* second sweep in which only single-steps did, the cap allowing a third
C31_Witness ==
    \E t \in Tasks :
       /\ SingleStepsEnabled
       /\ Len(repeatingPasses) = 3
       /\ LoopOver(t)
       /\ earlyExit[t]
       /\ ~QuietSweep(tasks[t], 1)
       /\ QuietSweep(tasks[t], 2)
       /\ sweeps[t] = 3
       /\ cap >= 3
       /\ Count(tasks[t], SingleSteps) = 2

\* the cap does not allow the following sweep to begin: the loop ends
\* without the early exit
C31_WitnessCap ==
    \E t \in Tasks :
       /\ SingleStepsEnabled
       /\ LoopOver(t)
       /\ QuietSweep(tasks[t], cap)
       /\ ~earlyExit[t]

====
